---- MODULE Spec2Model ----
(***************************************************************************)
(* Model of the automation orchestration core of sma-backend:             *)
(*   - SchedulerService (app/services/scheduler_service.py): the          *)
(*     scheduled publication executor for Instagram posts;                *)
(*   - InstagramAutoReplyService and the module-level reply paths         *)
(*     (app/services/instagram_auto_reply_service.py);                    *)
(*   - NotificationService (app/services/notification_service.py).        *)
(* Time is counted in units of TimeUnitMinutes minutes.                   *)
(***************************************************************************)
EXTENDS Integers, Sequences, FiniteSets, TLC

\* ------------------------------------------------------------------------
\* Bounds of the model
\* ------------------------------------------------------------------------
MaxPosts == 2
MaxTime == 3
MaxNotifs == 3
MaxConns == 2
MaxCalls == 2
MaxComments == 2
MaxCycles == 2
MaxLoops == 2
MaxRecent == 4
MaxListed == 4
MaxOwners == 2
MaxArrivals == 4
MaxDeliveries == 4

\* ------------------------------------------------------------------------
\* Program constants
\* ------------------------------------------------------------------------
TimeUnitMinutes == 5
MinCarouselImages == 3
MaxAiRetries == 5
MaxPublishRetries == 3
MaxMediaRetries == 2
AiRetryMinutes == 10
PublishRetryMinutes == 15
MediaRetryMinutes == 5
AiRetryDelay == AiRetryMinutes \div TimeUnitMinutes
PublishRetryDelay == PublishRetryMinutes \div TimeUnitMinutes
MediaRetryDelay == MediaRetryMinutes \div TimeUnitMinutes

PendingMaxLen == 50
DedupWindowMinutes == 15
LeadTimeMinutes == 10
StaleTimeoutMinutes == 5
FirstCheckMinutes == 10
MaxRepliesPerExecution == 3
DedupWindow == DedupWindowMinutes \div TimeUnitMinutes
LeadTime == LeadTimeMinutes \div TimeUnitMinutes
StaleTimeout == StaleTimeoutMinutes \div TimeUnitMinutes
FirstCheck == FirstCheckMinutes \div TimeUnitMinutes

PostIds == 1..MaxPosts
CommentIds == 1..MaxComments
AccountIds == {1}
Users == {1}
NULL == 0
NoTime == -1

\* Keywords the executor looks for in a lower-cased error message
\* (scheduler_service.py:258, 472, 486).  An error message is modelled by
\* the set of keywords it contains.
TransientKeywords == {"rate limit", "temporarily unavailable", "try again later", "quota exceeded"}
MediaKeywords == {"media", "image", "video", "download", "fetch"}
AiRateKeywords == {"rate limit", "quota"}

\* Error messages the Platform Publisher may return.
PublishErrors == {{"invalid"}, {"rate limit"}, {"media"}, {"rate limit", "media"}}
\* Error messages the Media Generator may return.
AiErrors == {{"invalid"}, {"rate limit"}, {"quota"}}
\* str() of the AttributeError raised by reading an attribute a row does not have.
AttributeErrorText == {"has no attribute"}

VARIABLES
    posts,          \* scheduled_posts table (committed rows): post id -> row
    accounts,       \* social_accounts table: account id -> row
    prefs,          \* notification_preferences table: user id -> row
    now,            \* wall clock
    sess,           \* rows held by the executor's session in the pass in progress
    due,            \* due_posts still to execute in the pass in progress
    exec_pc,        \* position of the executor: "idle", "exec", "notify", "final"
    exec_note,      \* notification the executor is about to send
    publish_ok,     \* post id -> number of successful publish calls
    last_outcome,   \* post id -> what the last execution of the post ran into
    streak,         \* post id -> number of consecutive transient failures
    notifications,  \* notifications table (set of rows)
    next_nid,       \* next notification id
    websocket_connections, \* NotificationService.websocket_connections: user -> connection
    conns,          \* the WebSocketConnection objects created so far
    pending_messages, \* NotificationService.pending_messages: user -> queued messages
    inflight,       \* calls suspended inside WebSocketConnection.send_message, oldest first
    delivered,      \* user -> messages written to a socket of the user, in order
    queued_log,     \* user -> messages in the order _queue_message_for_user appended them
    last_failed,    \* the last send_message call that returned False
    flush_pc,       \* position of _process_pending_messages: "sleep", "run" or "send"
    flush_users,    \* users the running flush iteration still has to visit
    flush_rest,     \* messages_to_send not yet sent for the user being flushed
    last_create,    \* what the last create_notification call did
    scheduled_alerts, \* NotificationService.scheduled_alerts (post ids)
    alert_tasks,    \* deferred pre-alert tasks: task id -> record
    alert_calls,    \* post id -> times at which schedule_pre_posting_alert was called
    comments,       \* comments the Graph API lists for the account: id -> attributes
    reply_log,      \* instagram_auto_reply_log table: comment ids that have a row
    global_enabled, \* GlobalAutoReplyStatus.enabled of the account
    reply_pc,       \* reply path -> its position and the comment it is replying to
    scan_rest,      \* comments enable_global_auto_reply still has to visit
    polling_tasks,  \* polling_tasks[instagram_user_id]: "none", "running" or "done"
    replies_posted, \* comment id -> number of reply_to_comment calls that returned success
    cand,           \* the comment an eligibility filter is asked about
    verdict,        \* what the filter returned for it ("none" before the call)
    fb_comments,    \* latest comment of each thread under the page's posts: id -> attributes
    fb_replied,     \* comment id -> a reply that reads as an AI response is listed under it
    fb_pc,          \* the Facebook engine's position and the comment it is replying to
    db_aware,       \* the database returns DateTime(timezone=True) columns with a time zone
    last_execution_at, \* AutomationRule.last_execution_at of the Instagram rule
    cycle,          \* the poll cycle of the rule: position, last_check, comments to visit
    failed_in,      \* comment id -> poll cycles in which a reply to it failed
    tried_in,       \* comment id -> poll cycles in which a reply to it was attempted
    call,           \* one call of execute_scheduled_instagram_post: the row, the account, the answers
    call_result,    \* what the call did (NotCalled before it ran)
    task_pc,        \* repeating task -> its position in its loop
    running,        \* service -> its running flag (running, is_running)
    shutdown,       \* shutdown_event has run
    after_shutdown, \* tasks that started an iteration after shutdown_event ran
    adding,         \* one addition to an offline queue: the queue, who adds, the message
    added,          \* the queue after the addition (NotAdded before it)
    scheduler_running, \* SchedulerService.running
    loops,          \* the coroutines of SchedulerService.start that passed its guard
    fb_last_execution_at,\* AutomationRule.last_execution_at of the Facebook rule
    rule_pass,      \* task -> its pass over the Facebook rule: position, the row it loaded, last_check
    pass,           \* one pass of process_scheduled_posts: position, the selected posts, the session, the posts handed to the executor
    quota,          \* one poll cycle of the Instagram rule over its selected posts: position, counters, comments left
    rule_in,        \* one rule at the start of a poll cycle: platform, account, selected posts, posts in the store and on the platform
    post_ids,       \* the posts whose comments the cycle goes on to read (NotResolved before)
    listing,        \* the comments the Graph API lists under one Facebook post, oldest first
    threads,        \* the threads of the listing, their latest comments and the replies attempted
    lookup,         \* the two post tables and the post a notification is asked for
    notified,       \* the owner of the notification row that was stored
    bulk_rows,      \* the rows of bulk_composer_content as the database holds them
    bulk_pass,      \* the pass of process_due_posts: its position, the posts it loaded, its objects
    bulk_posted,    \* how often each bulk post was created on the page
    ig_time,        \* when each comment under the monitored post was written, NoTime before that
    ig_cycle,       \* the poll cycle of the rule over that post
    ig_last_execution_at,\* rule.last_execution_at of that rule
    ig_evaluated,   \* the comments the eligibility filter was asked about
    ig_replied,     \* the comments marked as replied in the reply log
    dm_status,      \* the DmAutoReplyStatus row of the Instagram account
    dm_log,         \* the DM webhook deliveries handled so far
    dm_replies      \* message id -> number of auto-replies sent for it

schedVars == <<posts, accounts, prefs, sess, due, exec_pc, exec_note,
               publish_ok, last_outcome, streak>>
tableVars == <<notifications, next_nid, last_create>>
connVars == <<websocket_connections, conns>>
queueVars == <<pending_messages, inflight, delivered, queued_log, last_failed>>
flushVars == <<flush_pc, flush_users, flush_rest>>
alertVars == <<scheduled_alerts, alert_tasks, alert_calls>>
replyVars == <<comments, reply_log, global_enabled, reply_pc, scan_rest, polling_tasks,
               replies_posted>>
filterVars == <<cand, verdict>>
fbVars == <<fb_comments, fb_replied, fb_pc>>
cycleVars == <<db_aware, last_execution_at, cycle, failed_in, tried_in>>
callVars == <<call, call_result>>
taskVars == <<task_pc, running, shutdown, after_shutdown>>
addVars == <<adding, added>>
loopVars == <<scheduler_running, loops>>
ruleVars == <<fb_last_execution_at, rule_pass>>
passVars == <<pass>>
quotaVars == <<quota>>
resolveVars == <<rule_in, post_ids>>
threadVars == <<listing, threads>>
ownerVars == <<lookup, notified>>
bulkVars == <<bulk_rows, bulk_pass, bulk_posted>>
arriveVars == <<ig_time, ig_cycle, ig_last_execution_at, ig_evaluated, ig_replied>>
dmVars == <<dm_status, dm_log, dm_replies>>
extVars == <<filterVars, fbVars, cycleVars, callVars, taskVars, addVars, loopVars, ruleVars, passVars, quotaVars, resolveVars, threadVars, ownerVars, bulkVars, arriveVars, dmVars>>
vars == <<now, schedVars, tableVars, connVars, queueVars, flushVars, alertVars, replyVars, extVars>>

\* ------------------------------------------------------------------------
\* Rows
\* ------------------------------------------------------------------------
\* The mapped columns of ScheduledPost that the executor reads or writes.
\* media_urls is the number of URLs in the JSON array (0 for NULL or []).
ScheduledPost(type, img, nmedia, vid, prompt, strat, sched) ==
    [user_id |-> 1, social_account_id |-> 1, prompt |-> prompt, image_url |-> img,
     media_urls |-> nmedia, video_url |-> vid, post_type |-> type, post_id |-> NULL,
     scheduled_datetime |-> sched, strategy_id |-> strat, status |-> "scheduled",
     is_active |-> TRUE, last_executed |-> NoTime]

\* Rows the authoring surface creates: every media kind with and without
\* media, a post linked to a strategy plan, a post due one time unit after
\* the others, an empty caption.  t0 is the time the first posts are due.
PostTemplates(t0) ==
    { ScheduledPost("photo", img, 0, "none", "text", 0, t0) : img \in {"none", "base64", "url"} }
    \cup { ScheduledPost("photo", "url", 0, "none", "text", 1, t0),
           ScheduledPost("photo", "url", 0, "none", "text", 0, t0 + 1),
           ScheduledPost("photo", "url", 0, "none", "", 0, t0) }
    \cup { ScheduledPost("carousel", "none", n, "none", "text", 0, t0) : n \in {0, MinCarouselImages} }
    \cup { ScheduledPost("reel", "none", 0, vid, "text", 0, t0) : vid \in {"none", "url"} }

SocialAccount(exists, connected, token) ==
    [exists |-> exists, is_connected |-> connected, page_access_token |-> token]

AccountStates ==
    { SocialAccount(FALSE, FALSE, FALSE), SocialAccount(TRUE, FALSE, TRUE),
      SocialAccount(TRUE, TRUE, FALSE), SocialAccount(TRUE, TRUE, TRUE) }

NotificationPreferences(pre, succ) ==
    [pre_posting_enabled |-> pre, success_enabled |-> succ, failure_enabled |-> TRUE]

Notification(id, user, post, type, err, t) ==
    [id |-> id, user_id |-> user, post_id |-> post, type |-> type,
     error_message |-> err, created_at |-> t]

\* getattr on a mapped row: an attribute the class does not declare raises
\* AttributeError.
HasAttr(row, name) == name \in DOMAIN row

Contains(text, keywords) == text \cap keywords # {}

\* ------------------------------------------------------------------------
\* SchedulerService.execute_scheduled_instagram_post as a function of the
\* in-memory row and of what the collaborators answer.
\*   env.upload  : Cloudinary upload of a base64 image: "ok", "fail", "raise"
\*   env.gen     : image generation: Ok or the error message
\*   env.ncar    : number of carousel images that were generated
\*   env.publish : publisher: Ok or the error message
\*   env.pid     : platform post id returned on success
\* The result says what the row looks like in memory (row), what the last
\* db.commit() of the step wrote (saved, NoRow if none ran), and where the
\* method continues.
\* ------------------------------------------------------------------------
PlatformPostIds == {7}

\* the answer of a collaborator that succeeded (the other answers are error messages)
Ok == {"ok"}

ExecEnvs ==
    [upload : {"ok", "fail", "raise"}, gen : {Ok} \cup AiErrors,
     ncar : 0..MinCarouselImages, publish : {Ok} \cup PublishErrors,
     pid : PlatformPostIds]

\* The answers that execute_scheduled_instagram_post can ask for on a row:
\* a collaborator that is not called for the row has one (unused) answer.
EnvsFor(row) ==
    { e \in ExecEnvs :
        /\ (~(row.post_type = "photo" /\ row.image_url = "base64") => e.upload = "ok")
        /\ (~(row.post_type = "photo" /\ row.image_url = "none") => e.gen = Ok)
        /\ (~(row.post_type = "carousel" /\ row.media_urls = 0) => e.ncar = MinCarouselImages)
        /\ (e.publish # Ok => e.pid = 7) }

\* status = "failed"; is_active = False; last_executed = utcnow()
MarkFailed(row) ==
    [row EXCEPT !.status = "failed", !.is_active = FALSE, !.last_executed = now]

NoRow == [status |-> "no commit"]

Returned(row, saved, outcome) ==
    [row |-> row, saved |-> saved, exit |-> "return", note |-> <<>>,
     outcome |-> outcome, published |-> FALSE]

Continue(row, saved) ==
    [row |-> row, saved |-> saved, exit |-> "continue", note |-> <<>>,
     outcome |-> "none", published |-> FALSE]

ToNotify(row, saved, kind, err, outcome, published) ==
    [row |-> row, saved |-> saved, exit |-> "notify",
     note |-> <<kind, err>>, outcome |-> outcome, published |-> published]

\* retry_count += 1; scheduled_datetime = utcnow() + delay; last_executed = utcnow()
Rescheduled(row, delay) ==
    [row EXCEPT !.retry_count = @ + 1, !.scheduled_datetime = now + delay,
                !.last_executed = now]

\* lines 259-269 and 305-315: AI rate limit while resolving media.  Reading
\* retry_count raises AttributeError, which the handler at line 559 turns
\* into failed + inactive; at the ceiling the code falls through to the
\* missing-media exit at line 363.
AiRateLimited(row) ==
    IF ~HasAttr(row, "retry_count")
    THEN Returned(MarkFailed(row), MarkFailed(row), "ai_rate_limit")
    ELSE IF row.retry_count < MaxAiRetries
         THEN LET r == Rescheduled(row, AiRetryDelay * (row.retry_count + 1))
              IN  Returned(r, r, "ai_rate_limit")
         ELSE Returned(MarkFailed(row), MarkFailed(row), "ai_rate_limit")

\* lines 221-279
ResolvePhoto(row, env) ==
    LET conv == IF row.image_url = "base64"
                THEN IF env.upload = "ok"
                     THEN LET r == [row EXCEPT !.image_url = "url"] IN Continue(r, r)
                     ELSE Returned(MarkFailed(row), MarkFailed(row), "upload_failed")
                ELSE Continue(row, NoRow)
    IN  IF conv.exit = "return" THEN conv
        ELSE IF conv.row.image_url = "none"
             THEN IF env.gen = Ok
                  THEN Continue([conv.row EXCEPT !.image_url = "url"], conv.saved)
                  ELSE IF Contains(env.gen, AiRateKeywords)
                       THEN AiRateLimited(conv.row)
                       ELSE Returned(MarkFailed(conv.row), MarkFailed(conv.row), "media_failed")
             ELSE conv

\* lines 281-325
ResolveCarousel(row, env) ==
    IF row.media_urls = 0
    THEN IF env.ncar >= MinCarouselImages
         THEN Continue([row EXCEPT !.media_urls = env.ncar], NoRow)
         ELSE IF env.ncar = 0
              THEN AiRateLimited(row)
              ELSE Returned(MarkFailed(row), MarkFailed(row), "media_failed")
    ELSE Continue(row, NoRow)

\* lines 327-361: generate_and_upload_video (lines 185-199) always fails
ResolveReel(row, env) ==
    IF row.video_url = "none"
    THEN Returned(MarkFailed(row), MarkFailed(row), "media_failed")
    ELSE Continue(row, NoRow)

HasMedia(row) ==
    CASE row.post_type = "photo" -> row.image_url # "none"
      [] row.post_type = "carousel" -> row.media_urls > 0
      [] row.post_type = "reel" -> row.video_url # "none"
      [] OTHER -> FALSE

\* lines 216-369
ResolveMedia(row, env) ==
    LET r == CASE row.post_type = "photo" -> ResolvePhoto(row, env)
               [] row.post_type = "carousel" -> ResolveCarousel(row, env)
               [] row.post_type = "reel" -> ResolveReel(row, env)
               [] OTHER -> Continue(row, NoRow)
    IN  IF r.exit = "return" THEN r
        ELSE IF ~HasMedia(r.row)
             THEN Returned(MarkFailed(r.row), MarkFailed(r.row), "media_failed")
             ELSE r

\* lines 491-496: clear the media of the post's kind
ClearMedia(row) ==
    CASE row.post_type = "photo" -> [row EXCEPT !.image_url = "none"]
      [] row.post_type = "carousel" -> [row EXCEPT !.media_urls = 0]
      [] row.post_type = "reel" -> [row EXCEPT !.video_url = "none"]
      [] OTHER -> row

\* lines 506-528: status = "failed", commit, then the failure notification
PublishFailed(row, err, outcome) ==
    LET r == [row EXCEPT !.status = "failed"]
    IN  ToNotify(r, r, "failure", err, outcome, FALSE)

\* mutation of PublishRaised: the handler leaves the status as it was
PublishRaised_Mutant(row, saved, err, outcome) ==
    ToNotify(row, saved, "failure", err, outcome, FALSE)

\* lines 529-546: an exception inside the publish block sets status = "failed"
\* in memory and sends the failure notification with str(exception)
PublishRaised(row, saved, err, outcome) ==
    ToNotify([row EXCEPT !.status = "failed"], saved, "failure", err, outcome, FALSE)

\* lines 393-528
Publish(row, saved, env) ==
    IF env.publish = Ok
    THEN LET r == [row EXCEPT !.status = "posted", !.post_id = env.pid]
         IN  ToNotify(r, r, "success", {}, "published", TRUE)
    ELSE IF Contains(env.publish, TransientKeywords)
         THEN IF ~HasAttr(row, "retry_count")
              THEN PublishRaised(row, saved, AttributeErrorText, "publish_transient")
              ELSE IF row.retry_count < MaxPublishRetries
                   THEN LET r == Rescheduled(row, PublishRetryDelay * (row.retry_count + 1))
                        IN  Returned(r, r, "publish_transient")
                   ELSE PublishFailed(row, env.publish, "publish_transient")
         ELSE IF Contains(env.publish, MediaKeywords)
              THEN IF ~HasAttr(row, "retry_count")
                   THEN PublishRaised(row, saved, AttributeErrorText, "publish_media")
                   ELSE IF row.retry_count < MaxMediaRetries
                        THEN LET r == Rescheduled(ClearMedia(row), MediaRetryDelay)
                             IN  Returned(r, r, "publish_media")
                        ELSE PublishFailed(row, env.publish, "publish_media")
              ELSE PublishFailed(row, env.publish, "publish_terminal")

\* lines 201-528, up to the point where a notification is sent
ExecuteScheduledInstagramPost(row, acct, env) ==
    IF row.prompt = ""
    THEN Returned(MarkFailed(row), MarkFailed(row), "no_caption")
    ELSE LET m == ResolveMedia(row, env)
         IN  IF m.exit = "return" THEN m
             ELSE IF ~acct.exists \/ ~acct.is_connected
                  THEN Returned(m.row, m.saved, "no_account")
                  ELSE IF ~acct.page_access_token
                       THEN LET r == [m.row EXCEPT !.status = "failed"]
                            IN  Returned(r, r, "no_credentials")
                       ELSE Publish(m.row, m.saved, env)

NotCalled == [exit |-> "not called"]

\* execute_scheduled_instagram_post is called with a row
ApplyExecute ==
    /\ call_result = NotCalled
    /\ call_result' = ExecuteScheduledInstagramPost(call.row, call.acct, call.env)
    /\ UNCHANGED <<call, now, schedVars, tableVars, connVars, queueVars, flushVars, alertVars,
                   replyVars, filterVars, fbVars, cycleVars, taskVars, addVars, loopVars, ruleVars, passVars, quotaVars, resolveVars, threadVars, ownerVars, bulkVars, arriveVars, dmVars>>

\* ------------------------------------------------------------------------
\* NotificationService: offline queues, live connections, sends
\* ------------------------------------------------------------------------
ConnIds == 1..MaxConns

InSeq(x, q) == \E i \in 1..Len(q) : q[i] = x

\* mutation of DequeAppend: append at the left end
DequeAppend_Mutant(q, m) ==
    IF Len(q) >= PendingMaxLen THEN <<m>> \o SubSeq(q, 1, Len(q) - 1) ELSE <<m>> \o q

\* deque(maxlen=50).append: a full deque drops its oldest (leftmost) element
DequeAppend(q, m) ==
    IF Len(q) >= PendingMaxLen THEN Append(Tail(q), m) ELSE Append(q, m)

\* deque(maxlen=50).appendleft: a full deque drops its rightmost element
DequeAppendLeft(q, m) ==
    IF Len(q) >= PendingMaxLen THEN <<m>> \o SubSeq(q, 1, Len(q) - 1) ELSE <<m>> \o q

\* _queue_message_for_user (lines 275-281)
QueueMessageForUser(pm, u, m) == [pm EXCEPT ![u] = DequeAppend(@, m)]

\* mutation of RemovedRegistry: the connection stays in the registry
RemovedRegistry_Mutant(reg, u) == reg

\* remove_websocket_connection (lines 179-186) applied to registry reg and
\* connection objects cn
RemovedRegistry(reg, u) == [reg EXCEPT ![u] = NULL]

RemovedConns(reg, cn, u) ==
    IF reg[u] # NULL THEN [cn EXCEPT ![reg[u]].is_active = FALSE] ELSE cn

WebSocketConnection(u) ==
    [user_id |-> u, is_active |-> TRUE, ws_open |-> TRUE, last_heartbeat |-> now,
     handler |-> TRUE]

Caller(kind, id) == [kind |-> kind, id |-> id]

\* a message is identified by the id of its notification
Messages == 1..MaxNotifs

\* the call send_message(m) on connection c suspends (lock, socket write)
\* unless the wrapper is already inactive (line 30)
Suspends(u) ==
    /\ websocket_connections[u] # NULL
    /\ conns[websocket_connections[u]].is_active

\* _queue_message_for_user as send_websocket_notification calls it
Enqueue(u, m) ==
    /\ pending_messages' = QueueMessageForUser(pending_messages, u, m)
    /\ queued_log' = [queued_log EXCEPT ![u] = Append(@, m)]

Failure(m, via) == [msg |-> m, via |-> via]

NoFailure == [msg |-> NULL, via |-> "none"]

\* send_websocket_notification (lines 243-273) up to its first suspension
SendWebsocketNotification(u, n, by) ==
    IF websocket_connections[u] # NULL
    THEN LET c == websocket_connections[u]
         IN  IF conns[c].is_active
             THEN /\ inflight' = Append(inflight, [conn |-> c, msg |-> n, user |-> u, by |-> by])
                  /\ UNCHANGED <<connVars, pending_messages, queued_log, last_failed>>
             ELSE /\ websocket_connections' = RemovedRegistry(websocket_connections, u)
                  /\ conns' = RemovedConns(websocket_connections, conns, u)
                  /\ Enqueue(u, n)
                  /\ last_failed' = Failure(n, "direct")
                  /\ UNCHANGED inflight
    ELSE /\ Enqueue(u, n)
         /\ UNCHANGED <<connVars, inflight, last_failed>>

\* mutation of ExistingPrePosting: the cutoff is the current time
ExistingPrePosting_Mutant(u, post) ==
    { n \in notifications : /\ n.user_id = u
                            /\ n.post_id = post
                            /\ n.type = "pre_posting"
                            /\ n.created_at > now }

\* the pre_posting rows that make create_notification return early (lines 203-215)
ExistingPrePosting(u, post) ==
    { n \in notifications : /\ n.user_id = u
                            /\ n.post_id = post
                            /\ n.type = "pre_posting"
                            /\ n.created_at > now - DedupWindow }

\* mutation of IsDuplicate: the lookup ignores the post
IsDuplicate_Mutant(u, type, post) ==
    type = "pre_posting" /\ post # NULL /\ ExistingPrePosting(u, NULL) # {}

\* the early return of create_notification (lines 203-215)
IsDuplicate(u, type, post) ==
    type = "pre_posting" /\ post # NULL /\ ExistingPrePosting(u, post) # {}

\* create_notification (lines 188-241) up to its first suspension
CreateNotification(u, type, post, err, by) ==
    IF IsDuplicate(u, type, post)
    THEN /\ last_create' = [user |-> u, post |-> post, type |-> type, result |-> "existing"]
         /\ UNCHANGED <<notifications, next_nid, connVars, pending_messages, inflight,
                         queued_log, last_failed>>
    ELSE /\ notifications' = notifications \cup {Notification(next_nid, u, post, type, err, now)}
         /\ next_nid' = next_nid + 1
         /\ last_create' = [user |-> u, post |-> post, type |-> type, result |-> "inserted"]
         /\ SendWebsocketNotification(u, next_nid, by)

\* does create_notification(u, type, post) suspend on a socket write?
CreateSuspends(u, type, post) == ~IsDuplicate(u, type, post) /\ Suspends(u)

\* ------------------------------------------------------------------------
\* SchedulerService: the polling pass and the execution of one post
\* ------------------------------------------------------------------------
\* the rows of a query in primary-key order
RECURSIVE Ascending(_)
Ascending(S) ==
    IF S = {} THEN <<>>
    ELSE LET m == CHOOSE x \in S : \A y \in S : x <= y
         IN  <<m>> \o Ascending(S \ {m})

\* the due_posts query of process_scheduled_posts (lines 126-131)
DuePosts ==
    { p \in PostIds : /\ posts[p].status \in {"scheduled", "ready"}
                      /\ posts[p].scheduled_datetime <= now
                      /\ posts[p].is_active }

\* db.commit() on the executor's session: every row it holds is written,
\* the row of post p as given
Committed(p, row) ==
    [q \in PostIds |-> IF q = p THEN row ELSE IF q \in DOMAIN sess THEN sess[q] ELSE posts[q]]

CommittedAll == [q \in PostIds |-> IF q \in DOMAIN sess THEN sess[q] ELSE posts[q]]

\* StrategyPlan (strategy_plan.py:6-18) as the executor sees it
StrategyPlan == [id |-> 1, goal |-> "goal", theme |-> "theme"]

\* process_scheduled_posts, lines 104-139: select the due posts
StartPass ==
    /\ exec_pc = "idle"
    /\ DuePosts # {}
    /\ due' = Ascending(DuePosts)
    /\ sess' = [p \in DuePosts |-> posts[p]]
    /\ exec_pc' = "exec"
    /\ UNCHANGED <<now, posts, accounts, prefs, exec_note, publish_ok, last_outcome, streak,
                   tableVars, connVars, queueVars, flushVars, alertVars, replyVars, extVars>>

\* execute_scheduled_instagram_post on the next due post, up to the
\* notification (lines 201-528)
ExecuteOne ==
    /\ exec_pc = "exec"
    /\ due # <<>>
    /\ LET p == Head(due) IN
       \E env \in EnvsFor(sess[p]) :
          LET r == ExecuteScheduledInstagramPost(sess[p], accounts[sess[p].social_account_id], env)
          IN  /\ sess' = [sess EXCEPT ![p] = r.row]
              /\ posts' = IF r.saved = NoRow THEN posts ELSE Committed(p, r.saved)
              /\ last_outcome' = [last_outcome EXCEPT ![p] = r.outcome]
              /\ streak' = [streak EXCEPT ![p] =
                               IF r.outcome \in {"publish_transient", "ai_rate_limit"}
                               THEN @ + 1 ELSE 0]
              /\ publish_ok' = [publish_ok EXCEPT ![p] = IF r.published THEN @ + 1 ELSE @]
              /\ IF r.exit = "notify"
                 THEN exec_pc' = "notify" /\ exec_note' = r.note /\ due' = due
                 ELSE exec_pc' = "exec" /\ exec_note' = <<>> /\ due' = Tail(due)
    /\ UNCHANGED <<now, accounts, prefs, tableVars, connVars, queueVars, flushVars, alertVars,
                 replyVars, extVars>>

\* lines 450-459 and 518-528 / 536-546: the success or failure notification.
\* strategy_plan.name raises for a post linked to a strategy plan, and the
\* handler around the notification only logs it.
ExecNotify ==
    /\ exec_pc = "notify"
    /\ LET p == Head(due)
           row == sess[p]
           kind == exec_note[1]
           raises == row.strategy_id # NULL /\ ~HasAttr(StrategyPlan, "name")
           skip == raises \/ (kind = "success" /\ ~prefs[row.user_id].success_enabled)
       IN  IF skip
           THEN /\ exec_pc' = "final"
                /\ UNCHANGED <<posts, tableVars, connVars, queueVars>>
           ELSE /\ CreateNotification(row.user_id, kind, p, exec_note[2], Caller("exec", p))
                /\ posts' = IF kind = "failure" THEN CommittedAll ELSE posts
                /\ exec_pc' = IF CreateSuspends(row.user_id, kind, p) THEN "wait" ELSE "final"
                /\ UNCHANGED delivered
    /\ UNCHANGED <<now, accounts, prefs, sess, due, exec_note, publish_ok, last_outcome, streak,
                   flushVars, alertVars, replyVars, extVars>>

\* lines 548-558: is_active = False, last_executed = utcnow(), commit
ExecFinal ==
    /\ exec_pc = "final"
    /\ LET p == Head(due)
           row == [sess[p] EXCEPT !.is_active = FALSE, !.last_executed = now]
       IN  /\ sess' = [sess EXCEPT ![p] = row]
           /\ posts' = Committed(p, row)
    /\ due' = Tail(due)
    /\ exec_pc' = "exec"
    /\ exec_note' = <<>>
    /\ UNCHANGED <<now, accounts, prefs, publish_ok, last_outcome, streak,
                   tableVars, connVars, queueVars, flushVars, alertVars, replyVars, extVars>>

\* the end of the pass: get_db_session commits and closes (database.py:110-121)
EndPass ==
    /\ exec_pc = "exec"
    /\ due = <<>>
    /\ posts' = CommittedAll
    /\ sess' = <<>>
    /\ exec_pc' = "idle"
    /\ UNCHANGED <<now, accounts, prefs, due, exec_note, publish_ok, last_outcome, streak,
                   tableVars, connVars, queueVars, flushVars, alertVars, replyVars, extVars>>

\* time passes; a deferred task whose sleep is over runs before the clock moves on
Tick ==
    /\ now < MaxTime
    /\ \A t \in DOMAIN alert_tasks : alert_tasks[t].state = "sleeping" => alert_tasks[t].fire > now
    /\ now' = now + 1
    /\ UNCHANGED <<schedVars, tableVars, connVars, queueVars, flushVars, alertVars, replyVars, extVars>>

\* ------------------------------------------------------------------------
\* NotificationService: callers, connections, socket writes, the queue flush
\* ------------------------------------------------------------------------
execVars == <<sess, due, exec_note, publish_ok, last_outcome, streak>>

RemoveAt(q, i) == SubSeq(q, 1, i - 1) \o SubSeq(q, i + 1, Len(q))

\* send_test_notification (api/notifications.py:196-215): a pre_posting
\* notification for no post
NotifyTest ==
    /\ next_nid <= MaxNotifs
    /\ \E u \in Users :
          CreateNotification(u, "pre_posting", NULL, {}, Caller("api", NULL))
    /\ UNCHANGED <<now, posts, accounts, prefs, execVars, exec_pc, delivered, flushVars, alertVars,
                 replyVars, extVars>>

\* a caller of create_notification with a pre_posting notification for a
\* post (notification_service.py:412-421)
NotifyPrePosting ==
    /\ next_nid <= MaxNotifs
    /\ \E u \in Users, post \in PostIds :
          CreateNotification(u, "pre_posting", post, {}, Caller("api", NULL))
    /\ UNCHANGED <<now, posts, accounts, prefs, execVars, exec_pc, delivered, flushVars, alertVars,
                 replyVars, extVars>>

\* add_websocket_connection (lines 145-163), called by the socket handler
\* once it has accepted a client (api/notifications.py:243-248)
AddConnection ==
    /\ Len(conns) < MaxConns
    /\ \E u \in Users :
          /\ conns' = Append(RemovedConns(websocket_connections, conns, u), WebSocketConnection(u))
          /\ websocket_connections' = [websocket_connections EXCEPT ![u] = Len(conns) + 1]
    /\ UNCHANGED <<now, schedVars, tableVars, queueVars, flushVars, alertVars, replyVars, extVars>>

\* the socket handler of connection c ends (the client went away, a
\* heartbeat failed): api/notifications.py:326-360 removes whatever
\* connection its user has registered
Teardown ==
    /\ \E c \in DOMAIN conns :
          /\ conns[c].handler
          /\ LET u == conns[c].user_id
                 cn == RemovedConns(websocket_connections, conns, u)
             IN  /\ conns' = [cn EXCEPT ![c].handler = FALSE, ![c].ws_open = FALSE]
                 /\ websocket_connections' = RemovedRegistry(websocket_connections, u)
    /\ UNCHANGED <<now, schedVars, tableVars, queueVars, flushVars, alertVars, replyVars, extVars>>

\* send_heartbeat (lines 56-65) from the handler's 30 s timeout
\* (api/notifications.py:308-320) on an idle connection: the write succeeds
\* or raises
Heartbeat ==
    /\ \E u \in Users, ok \in BOOLEAN :
          /\ websocket_connections[u] # NULL
          /\ LET c == websocket_connections[u]
             IN  /\ conns[c].is_active
                 /\ \A i \in 1..Len(inflight) : inflight[i].conn # c
                 /\ conns' = IF ok THEN [conns EXCEPT ![c].last_heartbeat = now]
                                   ELSE [conns EXCEPT ![c].is_active = FALSE]
                 /\ conns' # conns
    /\ UNCHANGED <<now, schedVars, tableVars, websocket_connections, queueVars, flushVars, alertVars,
                 replyVars, extVars>>

\* is_stale (lines 67-69)
IsStale(conn) == now - conn.last_heartbeat > StaleTimeout

\* one round of _cleanup_stale_connections (lines 97-117)
Sweep ==
    LET stale_users == { u \in Users : /\ websocket_connections[u] # NULL
                                       /\ \/ ~conns[websocket_connections[u]].is_active
                                          \/ IsStale(conns[websocket_connections[u]]) }
    IN  /\ stale_users # {}
        /\ websocket_connections' = [u \in Users |-> IF u \in stale_users THEN NULL
                                                      ELSE websocket_connections[u]]
        /\ conns' = [c \in DOMAIN conns |->
                        IF \E u \in stale_users : websocket_connections[u] = c
                        THEN [conns[c] EXCEPT !.is_active = FALSE] ELSE conns[c]]
        /\ UNCHANGED <<now, schedVars, tableVars, queueVars, flushVars, alertVars, replyVars, extVars>>

\* _process_pending_messages wakes from its 5 s sleep (lines 123-125)
FlushBegin ==
    /\ flush_pc = "sleep"
    /\ \E u \in Users : pending_messages[u] # <<>>
    /\ flush_users' = Ascending({ u \in Users : pending_messages[u] # <<>> })
    /\ flush_pc' = "run"
    /\ UNCHANGED <<now, schedVars, tableVars, connVars, queueVars, flush_rest, alertVars,
                 replyVars, extVars>>

\* lines 135-136 and the rest of messages_to_send that the break leaves behind
FlushAbort(u, m, rest) ==
    /\ pending_messages' = [pending_messages EXCEPT ![u] = DequeAppendLeft(@, m)]
    /\ last_failed' = Failure(m, "flush")
    /\ flush_rest' = <<>>
    /\ flush_users' = Tail(flush_users)
    /\ flush_pc' = "run"

\* lines 126-132 for the next user: take the queue and start the first send
FlushUser ==
    /\ flush_pc = "run"
    /\ flush_users # <<>>
    /\ LET u == Head(flush_users)
           c == websocket_connections[u]
           messages_to_send == pending_messages[u]
       IN  IF c # NULL /\ messages_to_send # <<>>
           THEN IF conns[c].is_active
                THEN /\ pending_messages' = [pending_messages EXCEPT ![u] = <<>>]
                     /\ inflight' = Append(inflight, [conn |-> c, msg |-> Head(messages_to_send),
                                                       user |-> u, by |-> Caller("flush", NULL)])
                     /\ flush_rest' = Tail(messages_to_send)
                     /\ flush_pc' = "send"
                     /\ UNCHANGED <<flush_users, last_failed>>
                ELSE /\ pending_messages' = [pending_messages EXCEPT ![u] = <<Head(messages_to_send)>>]
                     /\ last_failed' = Failure(Head(messages_to_send), "flush")
                     /\ flush_users' = Tail(flush_users)
                     /\ UNCHANGED <<inflight, flush_rest, flush_pc>>
           ELSE /\ flush_users' = Tail(flush_users)
                /\ UNCHANGED <<pending_messages, inflight, flush_rest, flush_pc, last_failed>>
    /\ UNCHANGED <<now, schedVars, tableVars, connVars, delivered, queued_log, alertVars,
                 replyVars, extVars>>

\* the for loop over the users is over: back to sleep
FlushEnd ==
    /\ flush_pc = "run"
    /\ flush_users = <<>>
    /\ flush_pc' = "sleep"
    /\ UNCHANGED <<now, schedVars, tableVars, connVars, queueVars, flush_users, flush_rest,
                   alertVars, replyVars, extVars>>

\* what the caller of a direct send does once send_websocket_notification
\* has returned: the executor goes on to its cleanup (scheduler_service.py:548),
\* a deferred pre-alert drops its guard entry (line 426)
ResumeCaller(by) ==
    /\ exec_pc' = IF by.kind = "exec" THEN "final" ELSE exec_pc
    /\ scheduled_alerts' = IF by.kind = "alert"
                           THEN scheduled_alerts \ {alert_tasks[by.id].post}
                           ELSE scheduled_alerts
    /\ alert_tasks' = IF by.kind = "alert"
                      THEN [alert_tasks EXCEPT ![by.id].state = "done"]
                      ELSE alert_tasks

\* lines 263-270 after connection.send_message returned
DirectAfterSend(e, success, cn) ==
    /\ IF success
       THEN /\ conns' = cn
            /\ UNCHANGED <<websocket_connections, pending_messages, queued_log, last_failed>>
       ELSE /\ websocket_connections' = RemovedRegistry(websocket_connections, e.user)
            /\ conns' = RemovedConns(websocket_connections, cn, e.user)
            /\ Enqueue(e.user, e.msg)
            /\ last_failed' = Failure(e.msg, "direct")
    /\ ResumeCaller(e.by)
    /\ UNCHANGED <<flushVars, alert_calls>>

\* lines 131-139 after connection.send_message returned: the next message
\* of messages_to_send, or the re-queue and the break
FlushAfterSend(e, success, cn, others) ==
    /\ conns' = cn
    /\ IF ~success
       THEN /\ FlushAbort(e.user, e.msg, flush_rest)
            /\ inflight' = others
       ELSE IF flush_rest = <<>>
            THEN /\ flush_users' = Tail(flush_users)
                 /\ flush_pc' = "run"
                 /\ inflight' = others
                 /\ UNCHANGED <<pending_messages, flush_rest, last_failed>>
            ELSE IF cn[e.conn].is_active
                 THEN /\ inflight' = Append(others, [e EXCEPT !.msg = Head(flush_rest)])
                      /\ flush_rest' = Tail(flush_rest)
                      /\ UNCHANGED <<pending_messages, flush_users, flush_pc, last_failed>>
                 ELSE /\ FlushAbort(e.user, Head(flush_rest), Tail(flush_rest))
                      /\ inflight' = others
    /\ UNCHANGED <<websocket_connections, queued_log, exec_pc, alertVars>>

\* WebSocketConnection.send_message (lines 28-54) for the call that holds or
\* is next to get the connection's send_lock: the socket is no longer
\* connected, or the write succeeds, or it raises
SendComplete ==
    /\ \E i \in 1..Len(inflight) :
          /\ \A j \in 1..(i - 1) : inflight[j].conn # inflight[i].conn
          /\ LET e == inflight[i]
                 others == RemoveAt(inflight, i)
             IN  \E success \in (IF conns[e.conn].ws_open THEN BOOLEAN ELSE {FALSE}) :
                    LET cn == IF success THEN conns ELSE [conns EXCEPT ![e.conn].is_active = FALSE]
                    IN  /\ delivered' = IF success
                                        THEN [delivered EXCEPT ![e.user] =
                                                 Append(@, [msg |-> e.msg, via |-> IF e.by.kind = "flush"
                                                                                    THEN "flush" ELSE "direct"])]
                                        ELSE delivered
                        /\ IF e.by.kind = "flush"
                           THEN FlushAfterSend(e, success, cn, others)
                           ELSE DirectAfterSend(e, success, cn) /\ inflight' = others
    /\ UNCHANGED <<now, posts, accounts, prefs, execVars, tableVars, replyVars, extVars>>

\* A row that db.delete removed is kept with a status no query matches:
\* .first() returns None for it.
RowExists(row) == row.status # "deleted"

\* the re-read of _send_delayed_scheduled_post_alert
\* (notification_service.py:400-406): the row is there, scheduled and active
StillScheduled_Mutant(fresh_post) == RowExists(fresh_post)

StillScheduled(fresh_post) ==
    /\ RowExists(fresh_post)
    /\ fresh_post.status = "scheduled"
    /\ fresh_post.is_active

\* ------------------------------------------------------------------------
\* NotificationService: pre-posting alerts
\* ------------------------------------------------------------------------
\* schedule_pre_posting_alert with _schedule_scheduled_post_alert
\* (lines 283-351) for post p: the guard, the preferences, the alert time
AlertTime(row) == row.scheduled_datetime - LeadTime

\* the calls of schedule_pre_posting_alert so far
CallCount ==
    Cardinality(UNION { { <<p, i>> : i \in 1..Len(alert_calls[p]) } : p \in PostIds })

SchedulePreAlert ==
    /\ \E p \in PostIds :
          /\ CallCount < MaxCalls
          /\ alert_calls' = [alert_calls EXCEPT ![p] =
                                Append(@, [at |-> now, scheduled |-> posts[p].scheduled_datetime])]
          /\ IF p \in scheduled_alerts \/ ~RowExists(posts[p])
             THEN UNCHANGED <<scheduled_alerts, alert_tasks>>
             ELSE /\ scheduled_alerts' = scheduled_alerts \cup {p}
                  /\ alert_tasks' =
                        IF prefs[posts[p].user_id].pre_posting_enabled /\ AlertTime(posts[p]) > now
                        THEN Append(alert_tasks, [post |-> p, fire |-> AlertTime(posts[p]),
                                                  state |-> "sleeping"])
                        ELSE alert_tasks
    /\ UNCHANGED <<now, schedVars, tableVars, connVars, queueVars, flushVars, replyVars, extVars>>

\* _send_delayed_scheduled_post_alert (lines 389-437) once its sleep is over
AlertFire ==
    /\ \E t \in DOMAIN alert_tasks :
          /\ alert_tasks[t].state = "sleeping"
          /\ alert_tasks[t].fire <= now
          /\ LET p == alert_tasks[t].post
                 fresh_post == posts[p]
             IN  IF StillScheduled(fresh_post)
                 THEN /\ CreateNotification(fresh_post.user_id, "pre_posting", p, {}, Caller("alert", t))
                      /\ IF CreateSuspends(fresh_post.user_id, "pre_posting", p)
                         THEN /\ alert_tasks' = [alert_tasks EXCEPT ![t].state = "sending"]
                              /\ UNCHANGED scheduled_alerts
                         ELSE /\ alert_tasks' = [alert_tasks EXCEPT ![t].state = "done"]
                              /\ scheduled_alerts' = scheduled_alerts \ {p}
                 ELSE /\ alert_tasks' = [alert_tasks EXCEPT ![t].state = "done"]
                      /\ UNCHANGED <<scheduled_alerts, tableVars, connVars, pending_messages,
                                     inflight, queued_log, last_failed>>
    /\ UNCHANGED <<now, schedVars, delivered, flushVars, alert_calls, replyVars, extVars>>

\* cleanup_alert_tracking (lines 737-745), run hourly by main.py:205-216
CleanupAlertTracking ==
    /\ scheduled_alerts # {}
    /\ scheduled_alerts' = {}
    /\ UNCHANGED <<now, schedVars, tableVars, connVars, queueVars, flushVars, alert_tasks, alert_calls,
                 replyVars, extVars>>

\* update_scheduled_post (api/social_media.py:4285-4327) with a new
\* scheduled_datetime: the post is moved to the latest time
UpdateScheduledPost ==
    /\ exec_pc = "idle"
    /\ \E p \in PostIds, t \in {MaxTime} :
          /\ posts[p].status = "scheduled"
          /\ posts[p].scheduled_datetime # t
          /\ posts' = [posts EXCEPT ![p].scheduled_datetime = t]
    /\ UNCHANGED <<now, accounts, prefs, execVars, exec_pc, tableVars, connVars, queueVars,
                   flushVars, alertVars, replyVars, extVars>>

\* update_scheduled_post (api/social_media.py:4285-4327) with a
\* scheduled_datetime that is already reached: the next pass of the
\* executor takes the post
BringForwardScheduledPost(p) ==
    /\ exec_pc = "idle"
    /\ RowExists(posts[p])
    /\ posts[p].status = "scheduled"
    /\ posts[p].scheduled_datetime > now
    /\ posts' = [posts EXCEPT ![p].scheduled_datetime = now]
    /\ UNCHANGED <<now, accounts, prefs, execVars, exec_pc, tableVars, connVars, queueVars,
                   flushVars, alertVars, replyVars, extVars>>

\* delete_scheduled_post (api/social_media.py:4346-4377): only a row whose
\* status is 'scheduled' is deleted
DeleteScheduledPost(p) ==
    /\ exec_pc = "idle"
    /\ RowExists(posts[p])
    /\ posts[p].status = "scheduled"
    /\ posts' = [posts EXCEPT ![p].status = "deleted"]
    /\ UNCHANGED <<now, accounts, prefs, execVars, exec_pc, tableVars, connVars, queueVars,
                   flushVars, alertVars, replyVars, extVars>>

\* ------------------------------------------------------------------------
\* Comment auto-reply: the rule engine, the comment webhook, the global
\* enable scan and the polling task of one Instagram account.  All of them
\* are coroutines of one event loop: a path runs without interruption up to
\* the await of the reply generation and of reply_to_comment, where the
\* other paths may run.
\* ------------------------------------------------------------------------
Paths == {"engine", "webhook", "global"}

\* A comment as the Graph API returns it: whether the account itself wrote
\* it, and whether its text looks like an AI reply.
Comment(own, ai) == [own |-> own, ai |-> ai]

Idle == [pc |-> "idle", comment |-> NULL]

Replying(c) == [pc |-> "replying", comment |-> c]

\* has_auto_reply: a row of the ledger for the comment and the account.
HasAutoReply(c) == c \in reply_log

\* mark_auto_replied: insert the row unless it is there.
MarkAutoReplied(c) == IF HasAutoReply(c) THEN reply_log ELSE reply_log \cup {c}

\* _should_reply_to_comment: not an own comment, not an AI reply, no row yet.
ShouldReplyToComment(c) ==
    /\ ~comments[c].own
    /\ ~comments[c].ai
    /\ ~HasAutoReply(c)

\* reply_to_comment returned: success is counted per comment.
Posted(c, success) ==
    IF success THEN [replies_posted EXCEPT ![c] = @ + 1] ELSE replies_posted

\* _process_post_comments: the rule engine reaches a comment that is new to
\* it, decides to reply and suspends in _generate_and_post_reply.
EngineCheck ==
    /\ reply_pc["engine"] = Idle
    /\ \E c \in CommentIds :
          /\ ShouldReplyToComment(c)
          /\ reply_pc' = [reply_pc EXCEPT !["engine"] = Replying(c)]
    /\ UNCHANGED <<comments, reply_log, global_enabled, scan_rest, polling_tasks, replies_posted>>
    /\ UNCHANGED <<now, schedVars, tableVars, connVars, queueVars, flushVars, alertVars, extVars>>

\* _generate_and_post_reply resumes with the result of reply_to_comment and
\* marks the comment only when the reply succeeded.
EngineReply ==
    /\ reply_pc["engine"].pc = "replying"
    /\ \E success \in BOOLEAN :
          LET c == reply_pc["engine"].comment IN
          /\ replies_posted' = Posted(c, success)
          /\ reply_log' = IF success THEN MarkAutoReplied(c) ELSE reply_log
    /\ reply_pc' = [reply_pc EXCEPT !["engine"] = Idle]
    /\ UNCHANGED <<comments, global_enabled, scan_rest, polling_tasks>>
    /\ UNCHANGED <<now, schedVars, tableVars, connVars, queueVars, flushVars, alertVars, extVars>>

\* handle_incoming_comment_webhook up to its first suspension: global
\* auto-reply is enabled, the comment has no row and is not an own comment.
WebhookCheck ==
    /\ reply_pc["webhook"] = Idle
    /\ global_enabled
    /\ \E c \in CommentIds :
          /\ ~HasAutoReply(c)
          /\ ~comments[c].own
          /\ reply_pc' = [reply_pc EXCEPT !["webhook"] = Replying(c)]
    /\ UNCHANGED <<comments, reply_log, global_enabled, scan_rest, polling_tasks, replies_posted>>
    /\ UNCHANGED <<now, schedVars, tableVars, connVars, queueVars, flushVars, alertVars, extVars>>

\* The webhook resumes with the result of reply_to_comment and marks the
\* comment only when the reply succeeded.
WebhookReply ==
    /\ reply_pc["webhook"].pc = "replying"
    /\ \E success \in BOOLEAN :
          LET c == reply_pc["webhook"].comment IN
          /\ replies_posted' = Posted(c, success)
          /\ reply_log' = IF success THEN MarkAutoReplied(c) ELSE reply_log
    /\ reply_pc' = [reply_pc EXCEPT !["webhook"] = Idle]
    /\ UNCHANGED <<comments, global_enabled, scan_rest, polling_tasks>>
    /\ UNCHANGED <<now, schedVars, tableVars, connVars, queueVars, flushVars, alertVars, extVars>>

\* enable_global_auto_reply starts: the flag is set and the comments of the
\* account's posts are fetched.
EnableGlobalAutoReply ==
    /\ reply_pc["global"] = Idle
    /\ global_enabled' = TRUE
    /\ reply_pc' = [reply_pc EXCEPT !["global"] = [pc |-> "scan", comment |-> NULL]]
    /\ scan_rest' = CommentIds
    /\ UNCHANGED <<comments, reply_log, polling_tasks, replies_posted>>
    /\ UNCHANGED <<now, schedVars, tableVars, connVars, queueVars, flushVars, alertVars, extVars>>

\* A scan that passes over a comment with a row only.
GlobalCheck_Mutant ==
    /\ reply_pc["global"].pc = "scan"
    /\ scan_rest # {}
    /\ LET c == CHOOSE x \in scan_rest : \A y \in scan_rest : x <= y IN
          /\ scan_rest' = scan_rest \ {c}
          /\ reply_pc' = IF ~HasAutoReply(c)
                         THEN [reply_pc EXCEPT !["global"] = Replying(c)]
                         ELSE reply_pc
    /\ UNCHANGED <<comments, reply_log, global_enabled, polling_tasks, replies_posted>>
    /\ UNCHANGED <<now, schedVars, tableVars, connVars, queueVars, flushVars, alertVars, extVars>>

\* The scan visits the next comment: an own comment or a comment with a row
\* is passed over, for any other the scan suspends in the reply.
GlobalCheck ==
    /\ reply_pc["global"].pc = "scan"
    /\ scan_rest # {}
    /\ LET c == CHOOSE x \in scan_rest : \A y \in scan_rest : x <= y IN
          /\ scan_rest' = scan_rest \ {c}
          /\ reply_pc' = IF ~comments[c].own /\ ~HasAutoReply(c)
                         THEN [reply_pc EXCEPT !["global"] = Replying(c)]
                         ELSE reply_pc
    /\ UNCHANGED <<comments, reply_log, global_enabled, polling_tasks, replies_posted>>
    /\ UNCHANGED <<now, schedVars, tableVars, connVars, queueVars, flushVars, alertVars, extVars>>

\* The scan resumes after reply_to_comment: its result is not looked at and
\* the comment is marked.
GlobalReply ==
    /\ reply_pc["global"].pc = "replying"
    /\ \E success \in BOOLEAN :
          LET c == reply_pc["global"].comment IN
          /\ replies_posted' = Posted(c, success)
          /\ reply_log' = MarkAutoReplied(c)
    /\ reply_pc' = [reply_pc EXCEPT !["global"] = [pc |-> "scan", comment |-> NULL]]
    /\ UNCHANGED <<comments, global_enabled, scan_rest, polling_tasks>>
    /\ UNCHANGED <<now, schedVars, tableVars, connVars, queueVars, flushVars, alertVars, extVars>>

\* The scan is through: the polling task is created unless one is running.
GlobalDone ==
    /\ reply_pc["global"].pc = "scan"
    /\ scan_rest = {}
    /\ reply_pc' = [reply_pc EXCEPT !["global"] = Idle]
    /\ polling_tasks' = IF polling_tasks \in {"none", "done"} THEN "running" ELSE polling_tasks
    /\ UNCHANGED <<comments, reply_log, global_enabled, scan_rest, replies_posted>>
    /\ UNCHANGED <<now, schedVars, tableVars, connVars, queueVars, flushVars, alertVars, extVars>>

\* disable_global_auto_reply clears the flag.
DisableGlobalAutoReply ==
    /\ global_enabled
    /\ global_enabled' = FALSE
    /\ UNCHANGED <<comments, reply_log, reply_pc, scan_rest, polling_tasks, replies_posted>>
    /\ UNCHANGED <<now, schedVars, tableVars, connVars, queueVars, flushVars, alertVars, extVars>>

\* poll_new_posts_and_comments: with the flag cleared the loop is not
\* entered; with the flag set the first statement of the loop awaits the
\* value of the plain function get_access_token_for_user, which raises
\* TypeError, and the handler around the loop ends the task.  Either way the
\* task ends before it reads a comment.
PollNewPostsAndComments ==
    /\ polling_tasks = "running"
    /\ polling_tasks' = "done"
    /\ UNCHANGED <<comments, reply_log, global_enabled, reply_pc, scan_rest, replies_posted>>
    /\ UNCHANGED <<now, schedVars, tableVars, connVars, queueVars, flushVars, alertVars, extVars>>

\* ------------------------------------------------------------------------
\* Eligibility filters of the Instagram and the Facebook auto-reply engine
\* as functions of one comment.  A text is modelled by the listed phrases
\* it contains (lower-cased) and by where it has an "@".
\* ------------------------------------------------------------------------
\* ai_indicators of InstagramAutoReplyService._is_ai_response (lines 292-313)
IgAiIndicators ==
    {"thanks for your comment", "we appreciate your engagement", "thank you for your comment",
     "we're glad you", "thanks for sharing", "we love hearing from you", "thanks! we're",
     "we're excited", "you can find it", "let us know if", "you're welcome",
     "we appreciate your", "thanks for the", "thank you so much", "we're so glad you",
     "we love that you", "feel free to reach out", "don't hesitate to contact",
     "we'd love to hear", "we're here to help"}

\* ai_mention_patterns of InstagramAutoReplyService._is_ai_response (lines 326-332)
IgMentionPatterns ==
    {"thanks for your comment", "we appreciate your", "thank you for", "we're glad you",
     "we love hearing"}

\* ai_indicators of AutoReplyService._is_ai_response (auto_reply_service.py:294-306)
FbAiIndicators ==
    {"thanks for your comment", "we appreciate your engagement", "thank you for", "we're glad",
     "thanks for sharing", "we love hearing from you", "thanks! we're", "we're excited",
     "you can find it", "let us know if", "you're welcome"}

\* The phrases the texts of the model are made of: none is a substring of
\* another, so every subset is the set of listed phrases of some text.
Phrases == {"thanks for your comment", "thank you for", "we're glad"}

\* mention: no "@", an "@" at the start of the stripped text, an "@" further in
Texts == [phrases : SUBSET Phrases, mention : {"none", "start", "inside"}]

\* InstagramAutoReplyService._is_ai_response (lines 283-340)
IgIsAiResponse(text) ==
    \/ text.phrases \cap IgAiIndicators # {}
    \/ text.mention # "none" /\ text.phrases \cap IgMentionPatterns # {}

\* AutoReplyService._is_ai_response (auto_reply_service.py:285-322)
FbIsAiResponse(text) ==
    \/ text.phrases \cap FbAiIndicators # {}
    \/ text.mention = "start"

\* A comment handed to a filter.
\*   own     : its author is the monitored account
\*   parent  : "none" for a top-level comment; for a reply, "ai" if the
\*             parent is from the page and its message is an AI response,
\*             "other" if not, "unknown" if the parent cannot be fetched
\*   replied : Instagram: the ledger has a row for the comment;
\*             Facebook: _has_replied_to_comment answers True
Candidates ==
    { [platform |-> "instagram", own |-> o, text |-> t, parent |-> "none", replied |-> r] :
          o \in BOOLEAN, t \in Texts, r \in BOOLEAN }
    \cup
    { [platform |-> "facebook", own |-> o, text |-> t, parent |-> p, replied |-> r] :
          o \in BOOLEAN, t \in Texts, p \in {"none", "ai", "other", "unknown"}, r \in BOOLEAN }

IsAiResponse(c) ==
    IF c.platform = "instagram" THEN IgIsAiResponse(c.text) ELSE FbIsAiResponse(c.text)

\* InstagramAutoReplyService._should_reply_to_comment (lines 237-281)
IgShouldReplyToComment(c) ==
    IF c.own THEN FALSE
    ELSE IF IgIsAiResponse(c.text) THEN FALSE
    ELSE IF c.replied THEN FALSE
    ELSE TRUE

\* AutoReplyService._should_reply_to_comment (auto_reply_service.py:222-283):
\* the text of the comment itself is not looked at
FbShouldReplyToComment(c) ==
    IF c.replied THEN FALSE
    ELSE IF c.parent = "none" THEN TRUE
    ELSE c.parent = "ai"

\* a filter is called with the candidate comment
ApplyFilter ==
    /\ verdict = "none"
    /\ verdict' = IF (IF cand.platform = "instagram"
                      THEN IgShouldReplyToComment(cand)
                      ELSE FbShouldReplyToComment(cand))
                  THEN "reply" ELSE "skip"
    /\ UNCHANGED <<cand, now, schedVars, tableVars, connVars, queueVars, flushVars, alertVars,
                   replyVars, fbVars, cycleVars, callVars, taskVars, addVars, loopVars, ruleVars, passVars, quotaVars, resolveVars, threadVars, ownerVars, bulkVars, arriveVars, dmVars>>

\* ------------------------------------------------------------------------
\* The Facebook auto-reply engine (AutoReplyService) over the threads of
\* one page.
\* ------------------------------------------------------------------------
\* latest comment of a thread: whether the page wrote it, and what its
\* parent is (see Candidates)
FbComment(own, parent) == [own |-> own, parent |-> parent]

\* the comment as _should_reply_to_comment sees it; the filter does not
\* read its text
FbCandidate(c) ==
    [platform |-> "facebook", own |-> fb_comments[c].own,
     text |-> [phrases |-> {}, mention |-> "none"],
     parent |-> fb_comments[c].parent, replied |-> fb_replied[c]]

\* AutoReplyService._process_post_comments (auto_reply_service.py:164-194):
\* a thread whose latest comment is from the page is passed over; for
\* another the filter is asked and the engine suspends in
\* _generate_and_post_reply.
FbProcessPostComments ==
    /\ fb_pc = Idle
    /\ \E c \in CommentIds :
          /\ ~fb_comments[c].own
          /\ FbShouldReplyToComment(FbCandidate(c))
          /\ fb_pc' = Replying(c)
    /\ UNCHANGED <<fb_comments, fb_replied>>
    /\ UNCHANGED <<now, schedVars, tableVars, connVars, queueVars, flushVars, alertVars,
                   replyVars, filterVars, cycleVars, callVars, taskVars, addVars, loopVars, ruleVars, passVars, quotaVars, resolveVars, threadVars, ownerVars, bulkVars, arriveVars, dmVars>>

\* AutoReplyService._generate_and_post_reply (auto_reply_service.py:364-419)
\* resumes with the answer of the Graph API: on status 200 the reply is
\* listed under the comment, and it reads as an AI response or not.
FbGenerateAndPostReply ==
    /\ fb_pc.pc = "replying"
    /\ \E success \in BOOLEAN, reads_ai \in BOOLEAN :
          LET c == fb_pc.comment IN
          fb_replied' = IF success /\ reads_ai THEN [fb_replied EXCEPT ![c] = TRUE]
                        ELSE fb_replied
    /\ fb_pc' = Idle
    /\ UNCHANGED fb_comments
    /\ UNCHANGED <<now, schedVars, tableVars, connVars, queueVars, flushVars, alertVars,
                   replyVars, filterVars, cycleVars, callVars, taskVars, addVars, loopVars, ruleVars, passVars, quotaVars, resolveVars, threadVars, ownerVars, bulkVars, arriveVars, dmVars>>

\* ------------------------------------------------------------------------
\* The poll cycles of one Instagram auto-reply rule
\* (InstagramAutoReplyService._process_rule_auto_replies)
\* ------------------------------------------------------------------------
\* the timestamp the Graph API gives for a comment: the comments are there
\* before the first cycle
CommentTime(c) == 0

NoCycle == [pc |-> "idle", no |-> 0, last_check |-> NoTime, naive |-> FALSE, rest |-> {},
            comment |-> NULL, replies |-> 0]

\* comment_time > last_check (lines 167-187): the parsed timestamp has a time
\* zone; compared with a last_check that has none the comparison raises
\* TypeError and the handler includes the comment.
IsRecent(c, last_check, naive) == naive \/ CommentTime(c) > last_check

\* _process_rule_auto_replies begins a cycle (lines 71-117): last_check is
\* rule.last_execution_at as the database returns it, or utcnow() less ten
\* minutes when the rule has not run; the comments are fetched and those
\* since last_check kept (lines 142-189).
ProcessRuleAutoReplies ==
    /\ cycle.pc = "idle"
    /\ cycle.no < MaxCycles
    /\ LET first == last_execution_at = NoTime
           last_check == IF first THEN now - FirstCheck ELSE last_execution_at
           naive == first \/ ~db_aware
       IN cycle' = [pc |-> "scan", no |-> cycle.no + 1, last_check |-> last_check,
                    naive |-> naive,
                    rest |-> { c \in CommentIds : IsRecent(c, last_check, naive) },
                    comment |-> NULL, replies |-> 0]
    /\ UNCHANGED <<db_aware, last_execution_at, failed_in, tried_in>>
    /\ UNCHANGED <<now, schedVars, tableVars, connVars, queueVars, flushVars, alertVars,
                   replyVars, filterVars, fbVars, callVars, taskVars, addVars, loopVars, ruleVars, passVars, quotaVars, resolveVars, threadVars, ownerVars, bulkVars, arriveVars, dmVars>>

\* _process_post_comments visits the next recent comment (lines 191-231): a
\* comment of the account is passed over, for another the filter is asked
\* and on True the cycle suspends in _generate_and_post_reply.
ProcessPostComments ==
    /\ cycle.pc = "scan"
    /\ cycle.rest # {}
    /\ cycle.replies < MaxRepliesPerExecution
    /\ LET c == CHOOSE x \in cycle.rest : \A y \in cycle.rest : x <= y
           reply == ~comments[c].own /\ ShouldReplyToComment(c)
       IN /\ cycle' = [cycle EXCEPT !.rest = @ \ {c},
                                    !.pc = IF reply THEN "replying" ELSE "scan",
                                    !.comment = IF reply THEN c ELSE NULL]
          /\ tried_in' = IF reply THEN [tried_in EXCEPT ![c] = @ \cup {cycle.no}] ELSE tried_in
    /\ UNCHANGED <<db_aware, last_execution_at, failed_in>>
    /\ UNCHANGED <<now, schedVars, tableVars, connVars, queueVars, flushVars, alertVars,
                   replyVars, filterVars, fbVars, callVars, taskVars, addVars, loopVars, ruleVars, passVars, quotaVars, resolveVars, threadVars, ownerVars, bulkVars, arriveVars, dmVars>>

\* _generate_and_post_reply resumes with the result of reply_to_comment
\* (lines 427-446): the comment is marked on success only, and the reply
\* counts for the cycle either way (line 227).
GenerateAndPostReply ==
    /\ cycle.pc = "replying"
    /\ \E success \in BOOLEAN :
          LET c == cycle.comment IN
          /\ replies_posted' = Posted(c, success)
          /\ reply_log' = IF success THEN MarkAutoReplied(c) ELSE reply_log
          /\ failed_in' = IF success THEN failed_in
                          ELSE [failed_in EXCEPT ![c] = @ \cup {cycle.no}]
    /\ cycle' = [cycle EXCEPT !.pc = "scan", !.comment = NULL, !.replies = @ + 1]
    /\ UNCHANGED <<comments, global_enabled, reply_pc, scan_rest, polling_tasks>>
    /\ UNCHANGED <<db_aware, last_execution_at, tried_in>>
    /\ UNCHANGED <<now, schedVars, tableVars, connVars, queueVars, flushVars, alertVars,
                   filterVars, fbVars, callVars, taskVars, addVars, loopVars, ruleVars, passVars, quotaVars, resolveVars, threadVars, ownerVars, bulkVars, arriveVars, dmVars>>

\* the cycle ends, and the timestamp is written only when no reply of the
\* cycle failed
UpdateLastExecution_Mutant ==
    /\ cycle.pc = "scan"
    /\ cycle.rest = {} \/ cycle.replies >= MaxRepliesPerExecution
    /\ last_execution_at' = IF \E c \in CommentIds : cycle.no \in failed_in[c]
                            THEN last_execution_at ELSE now
    /\ cycle' = [cycle EXCEPT !.pc = "idle", !.rest = {}]
    /\ UNCHANGED <<db_aware, failed_in, tried_in>>
    /\ UNCHANGED <<now, schedVars, tableVars, connVars, queueVars, flushVars, alertVars,
                   replyVars, filterVars, fbVars, callVars, taskVars, addVars, loopVars,
                   ruleVars, passVars, quotaVars, resolveVars, threadVars, ownerVars, bulkVars, arriveVars, dmVars>>

\* the cycle ends (lines 134-137): rule.last_execution_at = utcnow()
UpdateLastExecution ==
    /\ cycle.pc = "scan"
    /\ cycle.rest = {} \/ cycle.replies >= MaxRepliesPerExecution
    /\ last_execution_at' = now
    /\ cycle' = [cycle EXCEPT !.pc = "idle", !.rest = {}]
    /\ UNCHANGED <<db_aware, failed_in, tried_in>>
    /\ UNCHANGED <<now, schedVars, tableVars, connVars, queueVars, flushVars, alertVars,
                   replyVars, filterVars, fbVars, callVars, taskVars, addVars, loopVars, ruleVars, passVars, quotaVars, resolveVars, threadVars, ownerVars, bulkVars, arriveVars, dmVars>>

\* ------------------------------------------------------------------------
\* One addition to the offline queue of a user.  The queue holds the
\* messages 1..n, oldest first; the message that is added is n + 1.
\*   by = "queue" : _queue_message_for_user appends a new message
\*                  (notification_service.py:275-281)
\*   by = "flush" : _process_pending_messages puts back the message whose
\*                  send failed (notification_service.py:133-136); the queue
\*                  then holds what was queued while the send was suspended
\* ------------------------------------------------------------------------
QueueOf(n) == [i \in 1..n |-> i]

NotAdded == <<0>>

Additions ==
    { [queue |-> QueueOf(n), by |-> by, msg |-> n + 1] :
          n \in 0..PendingMaxLen, by \in {"queue", "flush"} }

\* the message is added to the deque
AddToQueue ==
    /\ added = NotAdded
    /\ added' = IF adding.by = "queue"
                THEN DequeAppend(adding.queue, adding.msg)
                ELSE DequeAppendLeft(adding.queue, adding.msg)
    /\ UNCHANGED <<adding, now, schedVars, tableVars, connVars, queueVars, flushVars, alertVars,
                   replyVars, filterVars, fbVars, cycleVars, callVars, taskVars, loopVars, ruleVars, passVars, quotaVars, resolveVars, threadVars, ownerVars, bulkVars, arriveVars, dmVars>>

\* ------------------------------------------------------------------------
\* The repeating tasks and their loops
\*   "scheduler" : SchedulerService.start - publication executor and
\*                 auto-reply engine (scheduler_service.py:36-55)
\*   "bulk"      : BulkComposerScheduler.start (bulk_composer_scheduler.py:20-34)
\*   "fb_reply"  : auto_reply_scheduler of startup_event (main.py:172-184)
\*   "sweep"     : NotificationService._cleanup_stale_connections
\*                 (notification_service.py:97-117)
\*   "flush"     : NotificationService._process_pending_messages
\*                 (notification_service.py:119-143)
\* A task is at "check" when it evaluates the condition of its loop, at
\* "body" inside an iteration, at "sleep" after an iteration that returned,
\* at "handler" in the except clause of the loop, at "ended" after the loop.
\* ------------------------------------------------------------------------
Tasks == {"scheduler", "bulk", "fb_reply", "sweep", "flush"}

\* the tasks whose loop reads a flag: while self.running, while self.is_running
Stoppable == {"scheduler", "bulk"}

\* the condition of the loop of task t: the flag, or True
LoopCondition(t) == IF t \in Stoppable THEN running[t] ELSE TRUE

OthersUnchanged ==
    UNCHANGED <<now, schedVars, tableVars, connVars, queueVars, flushVars, alertVars,
                replyVars, filterVars, fbVars, cycleVars, callVars, addVars, loopVars, ruleVars, passVars, quotaVars, resolveVars, threadVars, ownerVars, bulkVars, arriveVars, dmVars>>

\* the loop condition holds: the task enters an iteration
BeginIteration(t) ==
    /\ task_pc[t] = "check"
    /\ LoopCondition(t)
    /\ task_pc' = [task_pc EXCEPT ![t] = "body"]
    /\ after_shutdown' = IF shutdown THEN after_shutdown \cup {t} ELSE after_shutdown
    /\ UNCHANGED <<running, shutdown>>
    /\ OthersUnchanged

\* the loop condition does not hold: the coroutine returns
ExitLoop(t) ==
    /\ task_pc[t] = "check"
    /\ ~LoopCondition(t)
    /\ task_pc' = [task_pc EXCEPT ![t] = "ended"]
    /\ UNCHANGED <<running, shutdown, after_shutdown>>
    /\ OthersUnchanged

\* the iteration returns and the task sleeps for its interval
BodyReturns(t) ==
    /\ task_pc[t] = "body"
    /\ task_pc' = [task_pc EXCEPT ![t] = "sleep"]
    /\ UNCHANGED <<running, shutdown, after_shutdown>>
    /\ OthersUnchanged

\* A loop without the except clause: the exception ends the coroutine.
BodyRaises_Mutant(t) ==
    /\ task_pc[t] = "body"
    /\ task_pc' = [task_pc EXCEPT ![t] = "ended"]
    /\ UNCHANGED <<running, shutdown, after_shutdown>>
    /\ OthersUnchanged

\* the iteration raises an Exception: the except clause of the loop logs it
\* and sleeps (scheduler_service.py:53-55, bulk_composer_scheduler.py:32-34,
\* main.py:179-180, notification_service.py:115-117 and 141-143)
BodyRaises(t) ==
    /\ task_pc[t] = "body"
    /\ task_pc' = [task_pc EXCEPT ![t] = "handler"]
    /\ UNCHANGED <<running, shutdown, after_shutdown>>
    /\ OthersUnchanged

\* the sleep after the iteration or in the except clause is over
WakeUp(t) ==
    /\ task_pc[t] \in {"sleep", "handler"}
    /\ task_pc' = [task_pc EXCEPT ![t] = "check"]
    /\ UNCHANGED <<running, shutdown, after_shutdown>>
    /\ OthersUnchanged

\* shutdown_event (main.py:234-269): BulkComposerScheduler.stop and
\* SchedulerService.stop clear the flags; the handler does not await
ShutdownEvent ==
    /\ ~shutdown
    /\ shutdown' = TRUE
    /\ running' = [t \in Stoppable |-> FALSE]
    /\ UNCHANGED <<task_pc, after_shutdown>>
    /\ OthersUnchanged

\* ------------------------------------------------------------------------
\* SchedulerService.start and stop, and the passes of every coroutine
\* that start has created.  A coroutine has its own session (sess: the rows
\* its due_posts query loaded; dirty: the rows it changed and has not
\* committed), and is at "check" (the condition of the loop), "exec",
\* "notify", "final" (inside a pass), "sleep" or "ended".
\* ------------------------------------------------------------------------
NewLoop == [pc |-> "check", sess |-> <<>>, dirty |-> {}, due |-> <<>>, note |-> <<>>]

\* db.commit() on the session of coroutine l: its dirty rows are written,
\* the row of post p as given
LoopCommitted(l, p, row) ==
    [q \in PostIds |-> IF q = p THEN row
                       ELSE IF q \in l.dirty THEN l.sess[q] ELSE posts[q]]

LoopFrame ==
    UNCHANGED <<now, accounts, prefs, sess, due, exec_pc, exec_note, alertVars, flushVars,
                replyVars, filterVars, fbVars, cycleVars, callVars, taskVars, addVars, ruleVars, passVars, quotaVars, resolveVars, threadVars, ownerVars, bulkVars, arriveVars, dmVars>>

\* start() (lines 36-46): a call while running is set returns at once; any
\* other call sets running and goes on to the loop
SchedulerStart ==
    /\ ~scheduler_running
    /\ Len(loops) < MaxLoops
    /\ scheduler_running' = TRUE
    /\ loops' = Append(loops, NewLoop)
    /\ UNCHANGED <<posts, publish_ok, last_outcome, streak, tableVars, connVars, queueVars>>
    /\ LoopFrame

\* stop() (lines 57-60) clears running; the coroutine of start is neither
\* cancelled nor awaited
SchedulerStop ==
    /\ scheduler_running
    /\ scheduler_running' = FALSE
    /\ UNCHANGED <<loops, posts, publish_ok, last_outcome, streak, tableVars, connVars,
                   queueVars>>
    /\ LoopFrame

\* while self.running (line 48): the coroutine returns, or it enters
\* process_scheduled_posts and selects the due posts (lines 104-139)
LoopCheck(i) ==
    /\ loops[i].pc = "check"
    /\ loops' = [loops EXCEPT ![i] =
                    IF ~scheduler_running THEN [@ EXCEPT !.pc = "ended"]
                    ELSE [pc |-> "exec", sess |-> [p \in DuePosts |-> posts[p]], dirty |-> {},
                          due |-> Ascending(DuePosts), note |-> <<>>]]
    /\ UNCHANGED <<scheduler_running, posts, publish_ok, last_outcome, streak, tableVars,
                   connVars, queueVars>>
    /\ LoopFrame

\* execute_scheduled_instagram_post on the next due post of the pass, up to
\* the notification (lines 201-528)
LoopExecuteOne(i) ==
    /\ loops[i].pc = "exec"
    /\ loops[i].due # <<>>
    /\ LET l == loops[i]
           p == Head(l.due)
       IN \E env \in EnvsFor(l.sess[p]) :
          LET r == ExecuteScheduledInstagramPost(l.sess[p], accounts[l.sess[p].social_account_id], env)
              committed == r.saved # NoRow
          IN  /\ posts' = IF committed THEN LoopCommitted(l, p, r.saved) ELSE posts
              /\ last_outcome' = [last_outcome EXCEPT ![p] = r.outcome]
              /\ streak' = [streak EXCEPT ![p] =
                               IF r.outcome \in {"publish_transient", "ai_rate_limit"}
                               THEN @ + 1 ELSE 0]
              /\ publish_ok' = [publish_ok EXCEPT ![p] = IF r.published THEN @ + 1 ELSE @]
              /\ loops' = [loops EXCEPT ![i] =
                              [pc |-> IF r.exit = "notify" THEN "notify" ELSE "exec",
                               sess |-> [l.sess EXCEPT ![p] = r.row],
                               dirty |-> IF committed
                                         THEN (IF r.row = r.saved THEN {} ELSE {p})
                                         ELSE (IF r.row = l.sess[p] THEN l.dirty
                                               ELSE l.dirty \cup {p}),
                               due |-> IF r.exit = "notify" THEN l.due ELSE Tail(l.due),
                               note |-> IF r.exit = "notify" THEN r.note ELSE <<>>]]
    /\ UNCHANGED <<scheduler_running, tableVars, connVars, queueVars>>
    /\ LoopFrame

\* lines 450-459 and 518-528 / 536-546: the success or failure notification
\* (see ExecNotify); the user has no connection, so the call does not wait
\* for a socket
LoopNotify(i) ==
    /\ loops[i].pc = "notify"
    /\ LET l == loops[i]
           p == Head(l.due)
           row == l.sess[p]
           kind == l.note[1]
           raises == row.strategy_id # NULL /\ ~HasAttr(StrategyPlan, "name")
           skip == raises \/ (kind = "success" /\ ~prefs[row.user_id].success_enabled)
       IN  IF skip
           THEN /\ loops' = [loops EXCEPT ![i] = [@ EXCEPT !.pc = "final"]]
                /\ UNCHANGED <<posts, tableVars, connVars, queueVars>>
           ELSE /\ CreateNotification(row.user_id, kind, p, l.note[2], Caller("exec", p))
                /\ posts' = IF kind = "failure" THEN LoopCommitted(l, p, row) ELSE posts
                /\ loops' = [loops EXCEPT ![i] =
                                [@ EXCEPT !.pc = "final",
                                          !.dirty = IF kind = "failure" THEN {} ELSE @]]
                /\ UNCHANGED delivered
    /\ UNCHANGED <<scheduler_running, publish_ok, last_outcome, streak>>
    /\ LoopFrame

\* lines 548-558: is_active = False, last_executed = utcnow(), commit
LoopFinal(i) ==
    /\ loops[i].pc = "final"
    /\ LET l == loops[i]
           p == Head(l.due)
           row == [l.sess[p] EXCEPT !.is_active = FALSE, !.last_executed = now]
       IN  /\ posts' = LoopCommitted(l, p, row)
           /\ loops' = [loops EXCEPT ![i] =
                           [pc |-> "exec", sess |-> [l.sess EXCEPT ![p] = row], dirty |-> {},
                            due |-> Tail(l.due), note |-> <<>>]]
    /\ UNCHANGED <<scheduler_running, publish_ok, last_outcome, streak, tableVars, connVars,
                   queueVars>>
    /\ LoopFrame

\* the end of the pass: get_db_session commits and closes; the coroutine
\* goes on to process_auto_replies and sleeps (lines 50-52)
LoopEndPass(i) ==
    /\ loops[i].pc = "exec"
    /\ loops[i].due = <<>>
    /\ posts' = [q \in PostIds |-> IF q \in loops[i].dirty THEN loops[i].sess[q] ELSE posts[q]]
    /\ loops' = [loops EXCEPT ![i] = [NewLoop EXCEPT !.pc = "sleep"]]
    /\ UNCHANGED <<scheduler_running, publish_ok, last_outcome, streak, tableVars, connVars,
                   queueVars>>
    /\ LoopFrame

\* asyncio.sleep(self.check_interval) is over
LoopWake(i) ==
    /\ loops[i].pc = "sleep"
    /\ loops' = [loops EXCEPT ![i] = [@ EXCEPT !.pc = "check"]]
    /\ UNCHANGED <<scheduler_running, posts, publish_ok, last_outcome, streak, tableVars,
                   connVars, queueVars>>
    /\ LoopFrame

\* ------------------------------------------------------------------------
\* AutoReplyService.process_auto_replies on one active Facebook rule of a
\* connected page that has posts.  It is called by two repeating tasks,
\* each with a session of its own: auto_reply_scheduler (main.py:173-185)
\* and SchedulerService.process_auto_replies in the loop of start
\* (scheduler_service.py:51, 610).  A pass is at "idle", at "fetch" (the
\* rule is loaded and the request for the page's posts is awaited), or at
\* "comments" (last_check is read and the posts' comments are processed).
\* ------------------------------------------------------------------------
Pollers == {"fb_reply", "scheduler"}
NoPass == [pc |-> "idle", loaded |-> NoTime, last_check |-> NoTime]

RuleFrame ==
    UNCHANGED <<now, schedVars, tableVars, connVars, queueVars, flushVars, alertVars,
                replyVars, filterVars, fbVars, cycleVars, callVars, taskVars, addVars,
                loopVars, passVars, quotaVars, resolveVars, threadVars, ownerVars, bulkVars, arriveVars, dmVars>>

\* auto_reply_service.py:27-46, 61-84: the active rules are queried, the
\* account is found connected, the posts of the page are requested
FbSelectRule(t) ==
    /\ rule_pass[t].pc = "idle"
    /\ rule_pass' = [rule_pass EXCEPT ![t] =
                        [pc |-> "fetch", loaded |-> fb_last_execution_at, last_check |-> NoTime]]
    /\ UNCHANGED fb_last_execution_at
    /\ RuleFrame

\* line 106: last_check = rule.last_execution_at or (utcnow() - 10 minutes),
\* then the comments of each post are requested (lines 109-118)
FbReadLastCheck(t) ==
    /\ rule_pass[t].pc = "fetch"
    /\ rule_pass' = [rule_pass EXCEPT ![t] =
                        [@ EXCEPT !.pc = "comments",
                                  !.last_check = IF rule_pass[t].loaded = NoTime
                                                 THEN now - FirstCheck
                                                 ELSE rule_pass[t].loaded]]
    /\ UNCHANGED fb_last_execution_at
    /\ RuleFrame

\* the end of the pass over the rule: lines 120-122 set
\* rule.last_execution_at = utcnow() and commit; an exception of one of the
\* requests ends the pass without them (lines 125-126)
FbUpdateLastExecution(t) ==
    /\ rule_pass[t].pc = "comments"
    /\ \E raised \in BOOLEAN :
          fb_last_execution_at' = IF raised THEN fb_last_execution_at ELSE now
    /\ rule_pass' = [rule_pass EXCEPT ![t] = NoPass]
    /\ RuleFrame

\* ------------------------------------------------------------------------
\* One pass of process_scheduled_posts (scheduler_service.py:104-150) with
\* the executor as a call that returns or raises.  The pass is at "idle",
\* in the "loop" over due_posts, or "done"; selected is the result of the
\* due_posts query, rest the posts the loop has not reached, handed the
\* posts passed to execute_scheduled_instagram_post in order, raised the
\* posts for which the call raised.
\* ------------------------------------------------------------------------
IdlePass ==
    [pc |-> "idle", selected |-> {}, rest |-> <<>>, sess |-> <<>>, dirty |-> {},
     handed |-> <<>>, raised |-> {}]

PassFrame ==
    UNCHANGED <<now, accounts, prefs, sess, due, exec_pc, exec_note, publish_ok, last_outcome,
                streak, tableVars, connVars, queueVars, flushVars, alertVars, replyVars,
                filterVars, fbVars, cycleVars, callVars, taskVars, addVars, loopVars, ruleVars, quotaVars, resolveVars, threadVars, ownerVars, bulkVars, arriveVars, dmVars>>

\* lines 115-139: the due posts are queried and the loop is entered
PassStart ==
    /\ pass.pc \in {"idle", "done"}
    /\ DuePosts # {}
    /\ pass' = [pc |-> "loop", selected |-> DuePosts, rest |-> Ascending(DuePosts),
                sess |-> [p \in DuePosts |-> posts[p]], dirty |-> {},
                handed |-> <<>>, raised |-> {}]
    /\ UNCHANGED posts
    /\ PassFrame

\* lines 140-142: the call for the next post returns; what it did to the
\* row is ExecuteScheduledInstagramPost, followed by the final cleanup of
\* lines 548-553 when the call went on to a notification
PassExecuteReturns ==
    /\ pass.pc = "loop"
    /\ pass.rest # <<>>
    /\ LET p == Head(pass.rest) IN
       \E env \in EnvsFor(pass.sess[p]) :
          LET r == ExecuteScheduledInstagramPost(pass.sess[p],
                                                 accounts[pass.sess[p].social_account_id], env)
              final == IF r.exit = "notify"
                       THEN [r.row EXCEPT !.is_active = FALSE, !.last_executed = now]
                       ELSE r.row
              committed == r.saved # NoRow \/ r.exit = "notify"
          IN  /\ posts' = IF committed THEN LoopCommitted(pass, p, final) ELSE posts
              /\ pass' = [pass EXCEPT !.rest = Tail(@),
                                      !.sess = [@ EXCEPT ![p] = final],
                                      !.dirty = IF committed THEN {}
                                                ELSE IF final = pass.sess[p] THEN @
                                                     ELSE @ \cup {p},
                                      !.handed = Append(@, p)]
    /\ PassFrame

\* the call raises and nothing catches the exception inside the loop: the
\* handler of line 149 ends the pass
PassExecuteRaises_Mutant ==
    /\ pass.pc = "loop"
    /\ pass.rest # <<>>
    /\ LET p == Head(pass.rest) IN
       pass' = [pass EXCEPT !.pc = "done",
                            !.rest = <<>>,
                            !.sess = [q \in pass.selected |-> posts[q]],
                            !.dirty = {},
                            !.handed = Append(@, p),
                            !.raised = @ \cup {p}]
    /\ UNCHANGED posts
    /\ PassFrame

\* lines 143-146: the call raises (its own handler at lines 559-569 has
\* failed and rolled the session back); the exception is logged and the
\* loop goes on to the next post
PassExecuteRaises ==
    /\ pass.pc = "loop"
    /\ pass.rest # <<>>
    /\ LET p == Head(pass.rest) IN
       pass' = [pass EXCEPT !.rest = Tail(@),
                            !.sess = [q \in pass.selected |-> posts[q]],
                            !.dirty = {},
                            !.handed = Append(@, p),
                            !.raised = @ \cup {p}]
    /\ UNCHANGED posts
    /\ PassFrame

\* the loop is over: get_db_session commits and closes (database.py:103-114)
PassEnd ==
    /\ pass.pc = "loop"
    /\ pass.rest = <<>>
    /\ posts' = [q \in PostIds |-> IF q \in pass.dirty THEN pass.sess[q] ELSE posts[q]]
    /\ pass' = [pass EXCEPT !.pc = "done", !.dirty = {}]
    /\ PassFrame

\* ------------------------------------------------------------------------
\* The reply limit of one poll cycle of the Instagram rule
\* (instagram_auto_reply_service.py:106-132, 191-231).  recent[m] is the
\* number of recent comments of other users under selected post m that the
\* loop of _process_post_comments has not reached; calls counts the calls
\* of instagram_service.reply_to_comment in the cycle.
\* ------------------------------------------------------------------------
Media == 1..MaxPosts

QuotaFrame ==
    UNCHANGED <<now, schedVars, tableVars, connVars, queueVars, flushVars, alertVars,
                replyVars, filterVars, fbVars, cycleVars, callVars, taskVars, addVars,
                loopVars, ruleVars, passVars, resolveVars, threadVars, ownerVars, bulkVars, arriveVars, dmVars>>

\* lines 106-112: the counters are set and the selected posts are shuffled
QuotaShuffle ==
    /\ quota.pc = "idle"
    /\ \E order \in { s \in [1..MaxPosts -> Media] : \A i, j \in 1..MaxPosts : s[i] = s[j] => i = j } :
          quota' = [quota EXCEPT !.pc = "posts", !.shuffled_post_ids = order,
                                 !.total_replies = 0]
    /\ QuotaFrame

\* every post is given the whole limit: max_replies = max_replies_per_execution
QuotaNextPost_Mutant ==
    /\ quota.pc = "posts"
    /\ quota' = IF quota.shuffled_post_ids = <<>>
                   \/ quota.total_replies >= MaxRepliesPerExecution
                THEN [quota EXCEPT !.pc = "update"]
                ELSE [quota EXCEPT !.pc = "comments",
                                   !.post_id = Head(quota.shuffled_post_ids),
                                   !.shuffled_post_ids = Tail(@),
                                   !.max_replies = MaxRepliesPerExecution,
                                   !.replies_for_post = 0]
    /\ QuotaFrame

\* lines 114-128: the loop over the posts ends (no post left, or the limit
\* is reached), or _process_post_comments is called for the next post with
\* max_replies = max_replies_per_execution - total_replies
QuotaNextPost ==
    /\ quota.pc = "posts"
    /\ quota' = IF quota.shuffled_post_ids = <<>>
                   \/ quota.total_replies >= MaxRepliesPerExecution
                THEN [quota EXCEPT !.pc = "update"]
                ELSE [quota EXCEPT !.pc = "comments",
                                   !.post_id = Head(quota.shuffled_post_ids),
                                   !.shuffled_post_ids = Tail(@),
                                   !.max_replies = MaxRepliesPerExecution - quota.total_replies,
                                   !.replies_for_post = 0]
    /\ QuotaFrame

\* lines 193-229: the next recent comment of the post; when
\* _should_reply_to_comment accepts it, _generate_and_post_reply is called
\* (it publishes the reply unless it returns or raises before line 427)
\* and replies_for_post is incremented
QuotaComment ==
    /\ quota.pc = "comments"
    /\ quota.replies_for_post < quota.max_replies
    /\ quota.recent[quota.post_id] > 0
    /\ \E should_reply \in BOOLEAN, publishes \in BOOLEAN :
          quota' = [quota EXCEPT !.recent[quota.post_id] = @ - 1,
                                 !.replies_for_post = IF should_reply THEN @ + 1 ELSE @,
                                 !.calls = IF should_reply /\ publishes THEN @ + 1 ELSE @]
    /\ QuotaFrame

\* lines 194-196, 231 and 129: the loop over the comments ends and
\* replies_for_post is added to total_replies
QuotaReturn ==
    /\ quota.pc = "comments"
    /\ quota.replies_for_post >= quota.max_replies \/ quota.recent[quota.post_id] = 0
    /\ quota' = [quota EXCEPT !.pc = "posts", !.total_replies = @ + quota.replies_for_post]
    /\ QuotaFrame

\* lines 134-136: the cycle is over
QuotaUpdate ==
    /\ quota.pc = "update"
    /\ quota' = [quota EXCEPT !.pc = "done"]
    /\ QuotaFrame

\* ------------------------------------------------------------------------
\* The posts a poll cycle reads comments of
\* (instagram_auto_reply_service.py:74-104, auto_reply_service.py:64-104)
\* ------------------------------------------------------------------------
\* NULL is the id of no post
NotResolved == {NULL}

\* Instagram: the list is rule.actions["selected_instagram_post_ids"]; the
\* cycle returns when the account is not connected, the list is empty or
\* the account has no page access token
IgSelectedPostIds(r) ==
    IF ~r.is_connected THEN {}
    ELSE IF r.selected = {} THEN {}
    ELSE IF ~r.page_access_token THEN {}
    ELSE r.selected

\* Facebook: the list is what /{page}/posts returns (nothing when the
\* request fails), and when that is empty the published and scheduled posts
\* of the account in the posts table that have a platform_post_id
FbSelectedPostIds(r) ==
    IF ~r.is_connected THEN {}
    ELSE IF r.listed # {} THEN r.listed ELSE r.stored

RuleInputs ==
    [platform : {"instagram", "facebook"}, is_connected : BOOLEAN, page_access_token : BOOLEAN,
     selected : SUBSET Media, stored : SUBSET Media, listed : SUBSET Media]

ResolveSelectedPosts ==
    /\ post_ids = NotResolved
    /\ post_ids' = IF rule_in.platform = "instagram" THEN IgSelectedPostIds(rule_in)
                   ELSE FbSelectedPostIds(rule_in)
    /\ UNCHANGED rule_in
    /\ UNCHANGED <<now, schedVars, tableVars, connVars, queueVars, flushVars, alertVars,
                   replyVars, filterVars, fbVars, cycleVars, callVars, taskVars, addVars,
                   loopVars, ruleVars, passVars, quotaVars, threadVars, ownerVars, bulkVars, arriveVars, dmVars>>

\* ------------------------------------------------------------------------
\* The threads of the comments under one Facebook post
\* ------------------------------------------------------------------------
\* A listed comment: the place of its parent in the listing (NULL for a
\* top-level comment), whether the page wrote it, and whether its text
\* reads as an AI response.
ListedComment(parent, own, ai) == [parent |-> parent, own |-> own, ai |-> ai]

\* the listings of MaxListed comments; a reply is listed after its parent
Listings ==
    { cs \in [1..MaxListed -> { ListedComment(p, o, a) :
                                  p \in 0..(MaxListed - 1), o \in BOOLEAN, a \in BOOLEAN }] :
          \A i \in 1..MaxListed : cs[i].parent < i }

\* no listing has been grouped
NotGrouped == [groups |-> <<>>, latest |-> {NULL}, attempted |-> {NULL}]

\* the key under which _group_comments_by_thread files a comment
\* (auto_reply_service.py:208-218): the id of its parent, or its own id
ThreadId(cs, c) == IF cs[c].parent # NULL THEN cs[c].parent ELSE c

\* AutoReplyService._group_comments_by_thread (auto_reply_service.py:199-220):
\* each thread holds its comments in the order of the listing
GroupCommentsByThread(cs) ==
    [ k \in { ThreadId(cs, c) : c \in DOMAIN cs } |->
        Ascending({ c \in DOMAIN cs : ThreadId(cs, c) = k }) ]

\* AutoReplyService._has_replied_to_comment (auto_reply_service.py:324-362):
\* some reply to the comment reads as an AI response
HasRepliedToComment(cs, c) == \E r \in DOMAIN cs : cs[r].parent = c /\ cs[r].ai

\* the comment as _should_reply_to_comment sees it; the parent is read
\* from the Graph API (auto_reply_service.py:253-271)
ListedCandidate(cs, c) ==
    [platform |-> "facebook", own |-> cs[c].own,
     text |-> [phrases |-> {}, mention |-> "none"],
     parent |-> IF cs[c].parent = NULL THEN "none"
                ELSE IF cs[cs[c].parent].own /\ cs[cs[c].parent].ai THEN "ai"
                ELSE "other",
     replied |-> HasRepliedToComment(cs, c)]

\* the last comment of each thread (auto_reply_service.py:164-166)
LatestComments(groups) == { groups[k][Len(groups[k])] : k \in DOMAIN groups }

\* AutoReplyService._process_post_comments (auto_reply_service.py:161-194)
\* over one listing: the latest comment of each thread is passed over when
\* the page wrote it, and handed to _generate_and_post_reply when the
\* filter says so.
ProcessListing ==
    /\ threads = NotGrouped
    /\ LET groups == GroupCommentsByThread(listing)
           latest == LatestComments(groups)
       IN  threads' = [groups |-> groups,
                       latest |-> latest,
                       attempted |-> { c \in latest :
                                         /\ ~listing[c].own
                                         /\ FbShouldReplyToComment(ListedCandidate(listing, c)) }]
    /\ UNCHANGED listing
    /\ UNCHANGED <<now, schedVars, tableVars, connVars, queueVars, flushVars, alertVars,
                   replyVars, filterVars, fbVars, cycleVars, callVars, taskVars, addVars,
                   loopVars, ruleVars, passVars, quotaVars, resolveVars, ownerVars, bulkVars, arriveVars, dmVars>>

\* ------------------------------------------------------------------------
\* Notification preferences
\* ------------------------------------------------------------------------
\* the preference columns the services read (models/notification.py:43-45)
PreferenceKeys == {"pre_posting_enabled", "success_enabled", "failure_enabled"}

\* the bodies of PUT /notification-preferences with their None values
\* filtered out (api/notifications.py:173-176)
PreferencesData == UNION { [ks -> BOOLEAN] : ks \in SUBSET PreferenceKeys }

\* the loop of update_user_preferences (notification_service.py:703-705)
SetAttrs(preferences, data) ==
    [k \in DOMAIN preferences |-> IF k \in DOMAIN data THEN data[k] ELSE preferences[k]]

\* mutation of UpdateUserPreferences: failure_enabled is not forced
UpdateUserPreferences_Mutant ==
    /\ \E u \in Users, data \in PreferencesData :
          prefs' = [prefs EXCEPT ![u] = SetAttrs(@, data)]
    /\ UNCHANGED <<now, posts, accounts, execVars, exec_pc, tableVars, connVars, queueVars,
                   flushVars, alertVars, replyVars, extVars>>

\* NotificationService.update_user_preferences
\* (notification_service.py:692-719): the attributes are set from the
\* request, failure_enabled is set to True, and the row is committed
UpdateUserPreferences ==
    /\ \E u \in Users, data \in PreferencesData :
          prefs' = [prefs EXCEPT ![u] = [SetAttrs(@, data) EXCEPT !.failure_enabled = TRUE]]
    /\ UNCHANGED <<now, posts, accounts, execVars, exec_pc, tableVars, connVars, queueVars,
                   flushVars, alertVars, replyVars, extVars>>

\* NotificationService.send_failure_notification
\* (notification_service.py:556-597) for a post of the store: the owner is
\* read from the row and create_notification is called; no preference is
\* read
SendFailureNotification ==
    /\ next_nid <= MaxNotifs
    /\ \E p \in PostIds :
          CreateNotification(posts[p].user_id, "failure", p, {}, Caller("api", NULL))
    /\ UNCHANGED <<now, posts, accounts, prefs, execVars, exec_pc, delivered, flushVars, alertVars,
                 replyVars, extVars>>

\* ------------------------------------------------------------------------
\* The owner of a notification about a post
\* ------------------------------------------------------------------------
Owners == 1..MaxOwners

\* The tables scheduled_posts and bulk_composer_content, each with its own
\* integer primary key: the owner of the row with an id, NULL where there
\* is no row.
PostTables == [PostIds -> {NULL} \cup Owners]

\* a notification of a type is asked for the post with an id of a table;
\* PostgreSQL enforces the foreign key of notifications.post_id, SQLite
\* does not unless told to
Lookups ==
    { [scheduled |-> s, bulk |-> b, table |-> t, id |-> i, type |-> ty, fk_enforced |-> fk] :
        s \in PostTables, b \in PostTables, t \in {"scheduled", "bulk"}, i \in PostIds,
        ty \in {"pre_posting", "success", "failure"}, fk \in BOOLEAN }

\* no call has been made
NotSent == [user |-> -1]

\* the user the services take as the owner of a post id
\* (notification_service.py:295-305, 509-520, 567-578): the row of
\* scheduled_posts with the id if there is one, else the row of
\* bulk_composer_content
OwnerOfPostId(l) ==
    IF l.scheduled[l.id] # NULL THEN l.scheduled[l.id]
    ELSE IF l.bulk[l.id] # NULL THEN l.bulk[l.id]
    ELSE NULL

\* the insert of create_notification (notification_service.py:217-229,
\* models/notification.py:23): post_id refers to scheduled_posts.id
InsertAccepted(l) == l.scheduled[l.id] # NULL \/ ~l.fk_enforced

\* schedule_pre_posting_alert and its deferred task, send_success_notification
\* and send_failure_notification for one post id: the owner is looked up and
\* the row is stored for that user
NotifyAboutPost ==
    /\ notified = NotSent
    /\ notified' = [user |-> IF InsertAccepted(lookup) THEN OwnerOfPostId(lookup) ELSE NULL]
    /\ UNCHANGED lookup
    /\ UNCHANGED <<now, schedVars, tableVars, connVars, queueVars, flushVars, alertVars,
                   replyVars, filterVars, fbVars, cycleVars, callVars, taskVars, addVars,
                   loopVars, ruleVars, passVars, quotaVars, resolveVars, threadVars, bulkVars, arriveVars, dmVars>>

\* ------------------------------------------------------------------------
\* The bulk composer scheduler
\* ------------------------------------------------------------------------
\* a row of bulk_composer_content (models/bulk_composer_content.py:16-41);
\* its scheduled_datetime is reached
BulkComposerContent(status) == [status |-> status, publish_attempts |-> 0]

\* process_due_posts is not running
NoBulkPass == [pc |-> "idle", no |-> 0, due_posts |-> <<>>, objects |-> <<>>]

\* the answers of facebook_service.create_post (bulk_composer_scheduler.py:128)
BulkResults == {"post_id", "error"}

BulkFrame ==
    UNCHANGED <<now, schedVars, tableVars, connVars, queueVars, flushVars, alertVars,
                replyVars, filterVars, fbVars, cycleVars, callVars, taskVars, addVars,
                loopVars, ruleVars, passVars, quotaVars, resolveVars, threadVars, ownerVars, arriveVars, dmVars>>

\* BulkComposerScheduler.process_due_posts (bulk_composer_scheduler.py:46-54):
\* the session db loads the rows whose status is scheduled
BulkProcessDuePosts ==
    /\ bulk_pass.pc = "idle"
    /\ bulk_pass.no < MaxCycles
    /\ LET due_posts == Ascending({ p \in PostIds : bulk_rows[p].status = "scheduled" })
       IN  bulk_pass' = [pc |-> "loop", no |-> bulk_pass.no + 1, due_posts |-> due_posts,
                         objects |-> bulk_rows]
    /\ UNCHANGED <<bulk_rows, bulk_posted>>
    /\ BulkFrame

\* the loop body (lines 58-67) and BulkComposerScheduler.publish_post
\* (lines 78-168) for the next post.  The object post belongs to the
\* session db of the pass; publish_post assigns its attributes and commits
\* the session post_db it was given, which holds no change.
BulkPublishPost ==
    /\ bulk_pass.pc = "loop"
    /\ bulk_pass.due_posts # <<>>
    /\ LET p == Head(bulk_pass.due_posts)
           post == bulk_pass.objects[p]
       IN  /\ IF ~(accounts[1].exists /\ accounts[1].is_connected)
              THEN /\ bulk_pass' = [bulk_pass EXCEPT !.due_posts = Tail(@),
                                       !.objects[p] = [post EXCEPT !.status = "failed"]]
                   /\ UNCHANGED bulk_posted
              ELSE \E result \in BulkResults :
                      /\ bulk_pass' =
                            [bulk_pass EXCEPT
                                !.due_posts = Tail(@),
                                !.objects[p] =
                                   [status |-> IF result = "post_id" THEN "published" ELSE "failed",
                                    publish_attempts |-> post.publish_attempts + 1]]
                      /\ bulk_posted' = [bulk_posted EXCEPT ![p] =
                                            IF result = "post_id" THEN @ + 1 ELSE @]
    /\ UNCHANGED bulk_rows
    /\ BulkFrame

\* the end of process_due_posts (lines 71-76): db.close() without a commit
\* drops the objects of the pass
BulkEndPass ==
    /\ bulk_pass.pc = "loop"
    /\ bulk_pass.due_posts = <<>>
    /\ bulk_pass' = [bulk_pass EXCEPT !.pc = "idle", !.objects = <<>>]
    /\ UNCHANGED <<bulk_rows, bulk_posted>>
    /\ BulkFrame

\* ------------------------------------------------------------------------
\* Comments that arrive while the Instagram rule polls
\* ------------------------------------------------------------------------
\* the comments other users write under one monitored post, in the order
\* they are written
Arrivals == 1..MaxArrivals

\* no cycle is running
NoPoll == [pc |-> "idle", last_check |-> NoTime, naive |-> FALSE, rest |-> {}, replies |-> 0]

ArriveFrame ==
    UNCHANGED <<schedVars, tableVars, connVars, queueVars, flushVars, alertVars,
                replyVars, filterVars, fbVars, cycleVars, callVars, taskVars, addVars,
                loopVars, ruleVars, passVars, quotaVars, resolveVars, threadVars, ownerVars,
                bulkVars, dmVars>>

\* A user writes the next comment.  A comment written in the time unit in
\* which a cycle has already ended waits for the next unit, so that a
\* comment as old as last_execution_at was written before that cycle ended.
WriteComment ==
    /\ ig_last_execution_at < now
    /\ \E c \in Arrivals :
          /\ ig_time[c] = NoTime
          /\ \A d \in Arrivals : d < c => ig_time[d] # NoTime
          /\ ig_time' = [ig_time EXCEPT ![c] = now]
    /\ UNCHANGED <<now, ig_cycle, ig_last_execution_at, ig_evaluated, ig_replied>>
    /\ ArriveFrame

\* comment_time > last_check (instagram_auto_reply_service.py:167-187); with
\* a last_check that has no time zone the comparison raises and the handler
\* keeps the comment
PollIsRecent(c, last_check, naive) == naive \/ ig_time[c] > last_check

\* _process_rule_auto_replies begins a cycle (lines 96-128) on PostgreSQL:
\* last_check is rule.last_execution_at, or utcnow() less ten minutes, which
\* has no time zone, when the rule has not run; the comments written so far
\* are fetched and those since last_check kept (lines 155-189)
PollBegin ==
    /\ ig_cycle.pc = "idle"
    /\ LET first == ig_last_execution_at = NoTime
           last_check == IF first THEN now - FirstCheck ELSE ig_last_execution_at
       IN  ig_cycle' = [pc |-> "scan", last_check |-> last_check, naive |-> first,
                        rest |-> { c \in Arrivals : /\ ig_time[c] # NoTime
                                                     /\ PollIsRecent(c, last_check, first) },
                        replies |-> 0]
    /\ UNCHANGED <<now, ig_time, ig_last_execution_at, ig_evaluated, ig_replied>>
    /\ ArriveFrame

\* the loop of _process_post_comments (lines 191-231) visits the next
\* recent comment while the cap is not reached: the filter is asked, it
\* says no for a comment of the reply log, and a reply counts for the cycle
\* whether reply_to_comment succeeds or not
PollComment ==
    /\ ig_cycle.pc = "scan"
    /\ ig_cycle.rest # {}
    /\ ig_cycle.replies < MaxRepliesPerExecution
    /\ LET c == CHOOSE x \in ig_cycle.rest : \A y \in ig_cycle.rest : x <= y
       IN  /\ ig_evaluated' = ig_evaluated \cup {c}
           /\ IF c \in ig_replied
              THEN /\ ig_cycle' = [ig_cycle EXCEPT !.rest = @ \ {c}]
                   /\ UNCHANGED ig_replied
              ELSE \E success \in BOOLEAN :
                      /\ ig_cycle' = [ig_cycle EXCEPT !.rest = @ \ {c}, !.replies = @ + 1]
                      /\ ig_replied' = IF success THEN ig_replied \cup {c} ELSE ig_replied
    /\ UNCHANGED <<now, ig_time, ig_last_execution_at>>
    /\ ArriveFrame

\* the cycle ends (lines 131-137): rule.last_execution_at = utcnow()
PollEnd ==
    /\ ig_cycle.pc = "scan"
    /\ ig_cycle.rest = {} \/ ig_cycle.replies >= MaxRepliesPerExecution
    /\ ig_last_execution_at' = now
    /\ ig_cycle' = NoPoll
    /\ UNCHANGED <<now, ig_time, ig_evaluated, ig_replied>>
    /\ ArriveFrame

\* time passes
PollTick ==
    /\ now < MaxTime
    /\ now' = now + 1
    /\ UNCHANGED <<ig_time, ig_cycle, ig_last_execution_at, ig_evaluated, ig_replied>>
    /\ ArriveFrame

\* ------------------------------------------------------------------------
\* The Instagram DM webhook
\* ------------------------------------------------------------------------
\* the message ids (mid) of the direct messages an account receives
DmIds == 1..3

\* the answers of send_direct_message
DmAnswers == {"success", "failure"}

\* the row of dm_auto_reply_status of the account (dm_auto_reply_status.py:6-14)
DmAutoReplyStatus(enabled, last) == [enabled |-> enabled, last_processed_dm_id |-> last]

DmFrame ==
    UNCHANGED <<now, schedVars, tableVars, connVars, queueVars, flushVars, alertVars,
                replyVars, filterVars, fbVars, cycleVars, callVars, taskVars, addVars,
                loopVars, ruleVars, passVars, quotaVars, resolveVars, threadVars, ownerVars,
                bulkVars, arriveVars>>

\* toggle_instagram_dm_auto_reply (social_media.py:4132-4151)
ToggleInstagramDmAutoReply ==
    /\ \E enabled \in BOOLEAN :
          /\ enabled # dm_status.enabled
          /\ dm_status' = [dm_status EXCEPT !.enabled = enabled]
    /\ UNCHANGED <<dm_log, dm_replies>>
    /\ DmFrame

\* mutation of DmSendResult: the token is read without await and the
\* services send the reply
DmSendResult_Mutant(answer) == answer

\* Lines 649-666, the token, the reply text and the send, when the
\* send would get the given answer.  get_access_token_for_user is a plain
\* function (instagram_service.py:637-643), so awaiting what it returns
\* raises TypeError at line 650, before generate_dm_reply and
\* send_direct_message, which no service defines; the handler at line 679
\* logs the exception.
DmSendResult(answer) == "raised"

\* handle_incoming_dm_webhook (lines 597-691) for one delivery of message mid
HandleIncomingDmWebhook ==
    /\ Len(dm_log) < MaxDeliveries
    /\ \E mid \in DmIds, answer \in DmAnswers :
          LET skipped == ~dm_status.enabled \/ dm_status.last_processed_dm_id = mid
              result == IF skipped THEN "skipped" ELSE DmSendResult(answer)
          IN  /\ dm_log' = Append(dm_log, [mid |-> mid, enabled |-> dm_status.enabled])
              /\ dm_replies' = IF result = "success"
                               THEN [dm_replies EXCEPT ![mid] = @ + 1]
                               ELSE dm_replies
              /\ dm_status' = IF result = "success"
                              THEN [dm_status EXCEPT !.last_processed_dm_id = mid]
                              ELSE dm_status
    /\ DmFrame

\* ------------------------------------------------------------------------
\* Initial states
\* ------------------------------------------------------------------------
InitExecutor ==
    /\ sess = <<>>
    /\ due = <<>>
    /\ exec_pc = "idle"
    /\ exec_note = <<>>
    /\ publish_ok = [p \in PostIds |-> 0]
    /\ last_outcome = [p \in PostIds |-> "none"]
    /\ streak = [p \in PostIds |-> 0]

\* no client has connected
NoConnections ==
    /\ websocket_connections = [u \in Users |-> NULL]
    /\ conns = <<>>

\* every user has connected once
Connected ==
    /\ conns = [c \in 1..Cardinality(Users) |-> WebSocketConnection(c)]
    /\ websocket_connections = [u \in Users |-> u]

InitStore ==
    /\ notifications = {}
    /\ next_nid = 1
    /\ last_create = [user |-> NULL, post |-> NULL, type |-> "none", result |-> "none"]
    /\ pending_messages = [u \in Users |-> <<>>]
    /\ inflight = <<>>
    /\ delivered = [u \in Users |-> <<>>]
    /\ queued_log = [u \in Users |-> <<>>]
    /\ last_failed = NoFailure
    /\ flush_pc = "sleep"
    /\ flush_users = <<>>
    /\ flush_rest = <<>>

InitNotification == InitStore /\ NoConnections

InitAlerts ==
    /\ scheduled_alerts = {}
    /\ alert_tasks = <<>>
    /\ alert_calls = [p \in PostIds |-> <<>>]

InitReplyPaths ==
    /\ reply_log = {}
    /\ global_enabled = FALSE
    /\ reply_pc = [w \in Paths |-> Idle]
    /\ scan_rest = {}
    /\ polling_tasks = "none"
    /\ replies_posted = [c \in CommentIds |-> 0]

InitReplies ==
    /\ comments = [c \in CommentIds |-> Comment(FALSE, FALSE)]
    /\ InitReplyPaths

\* no filter has been asked
InitNoCandidate ==
    /\ cand = [platform |-> "instagram", own |-> FALSE,
               text |-> [phrases |-> {}, mention |-> "none"], parent |-> "none",
               replied |-> FALSE]
    /\ verdict = "none"

\* the page has no thread that asks for a reply
InitNoThreads ==
    /\ fb_comments = [c \in CommentIds |-> FbComment(TRUE, "none")]
    /\ fb_replied = [c \in CommentIds |-> FALSE]
    /\ fb_pc = Idle

\* the rule has not run; the database is PostgreSQL
InitNoCycle ==
    /\ db_aware = TRUE
    /\ last_execution_at = NoTime
    /\ cycle = NoCycle
    /\ failed_in = [c \in CommentIds |-> {}]
    /\ tried_in = [c \in CommentIds |-> {}]

\* no single call is looked at
InitNoCall ==
    /\ call = [row |-> ScheduledPost("photo", "url", 0, "none", "text", NULL, 0),
               acct |-> SocialAccount(TRUE, TRUE, TRUE),
               env |-> [upload |-> "ok", gen |-> Ok, ncar |-> MinCarouselImages, publish |-> Ok,
                        pid |-> 7]]
    /\ call_result = NotCalled

\* startup_event has created the tasks and the services have set their flags
InitTasksStarted ==
    /\ task_pc = [t \in Tasks |-> "check"]
    /\ running = [t \in Stoppable |-> TRUE]
    /\ shutdown = FALSE
    /\ after_shutdown = {}

\* no single addition is looked at
InitNoAddition ==
    /\ adding = [queue |-> <<>>, by |-> "queue", msg |-> 1]
    /\ added = NotAdded

\* start has not been called
InitNotStarted ==
    /\ scheduler_running = FALSE
    /\ loops = <<>>

\* no task is in a pass over the Facebook rule, which has never been executed
InitNoRulePass ==
    /\ fb_last_execution_at = NoTime
    /\ rule_pass = [t \in Pollers |-> NoPass]

\* process_scheduled_posts is not running
InitNoPass == pass = IdlePass

\* no poll cycle has started; no comment is recent
NoQuota ==
    [pc |-> "idle", shuffled_post_ids |-> <<>>, post_id |-> NULL, total_replies |-> 0,
     max_replies |-> 0, replies_for_post |-> 0, recent |-> [m \in Media |-> 0], calls |-> 0]

InitNoQuota == quota = NoQuota

\* no rule is being resolved
InitNoRule ==
    /\ rule_in = [platform |-> "instagram", is_connected |-> TRUE, page_access_token |-> TRUE,
                  selected |-> {}, stored |-> {}, listed |-> {}]
    /\ post_ids = NotResolved

\* no listing has been processed
InitNoListing ==
    /\ listing = <<>>
    /\ threads = NotGrouped

\* no notification is asked for
InitNoLookup ==
    /\ lookup = [scheduled |-> [p \in PostIds |-> NULL], bulk |-> [p \in PostIds |-> NULL],
                 table |-> "scheduled", id |-> 1, type |-> "success", fk_enforced |-> TRUE]
    /\ notified = NotSent

\* the bulk scheduler has not run and no bulk post is scheduled
InitNoBulk ==
    /\ bulk_rows = [p \in PostIds |-> BulkComposerContent("draft")]
    /\ bulk_pass = NoBulkPass
    /\ bulk_posted = [p \in PostIds |-> 0]

\* no comment has been written under the monitored post and its rule has
\* not run
InitNoArrival ==
    /\ ig_time = [c \in Arrivals |-> NoTime]
    /\ ig_cycle = NoPoll
    /\ ig_last_execution_at = NoTime
    /\ ig_evaluated = {}
    /\ ig_replied = {}

\* DM auto-reply has not been switched on for the account and no DM webhook
\* has come in
InitNoDm ==
    /\ dm_status = DmAutoReplyStatus(FALSE, NULL)
    /\ dm_log = <<>>
    /\ dm_replies = [m \in DmIds |-> 0]

InitExt ==
    /\ InitNoCandidate
    /\ InitNoThreads
    /\ InitNoCycle
    /\ InitNoCall
    /\ InitTasksStarted
    /\ InitNoAddition
    /\ InitNotStarted
    /\ InitNoDm
    /\ InitNoArrival
    /\ InitNoBulk
    /\ InitNoLookup
    /\ InitNoListing
    /\ InitNoRule
    /\ InitNoQuota
    /\ InitNoPass
    /\ InitNoRulePass

\* nothing is scheduled to happen, no client is connected, no path replies
InitQuiet ==
    /\ now = 0
    /\ posts = [p \in PostIds |-> ScheduledPost("photo", "url", 0, "none", "text", NULL, MaxTime + 1)]
    /\ accounts = [a \in AccountIds |-> SocialAccount(TRUE, TRUE, TRUE)]
    /\ prefs = [u \in Users |-> NotificationPreferences(TRUE, TRUE)]
    /\ InitExecutor
    /\ InitNotification
    /\ InitAlerts
    /\ InitReplies

\* The publication executor on its own: no client is connected.  The clock
\* starts one unit before its bound, when the first posts are due.
InitSched ==
    /\ now = MaxTime - 1
    /\ posts \in [PostIds -> PostTemplates(now)]
    /\ accounts \in [AccountIds -> AccountStates]
    /\ prefs \in [Users -> {NotificationPreferences(TRUE, s) : s \in BOOLEAN}]
    /\ InitExecutor
    /\ InitNotification
    /\ InitAlerts
    /\ InitReplies
    /\ InitExt

NextSched == StartPass \/ ExecuteOne \/ ExecNotify \/ ExecFinal \/ EndPass \/ Tick

SpecSched == InitSched /\ [][NextSched]_vars

\* The notification service on its own: callers create notifications while
\* clients connect and go away; no post is due.  SpecNotif and SpecNotifLive
\* look at the delivery of the messages within one time unit.
InitNotif ==
    /\ now = 0
    /\ posts = [p \in PostIds |-> ScheduledPost("photo", "url", 0, "none", "text", NULL, MaxTime + 1)]
    /\ accounts = [a \in AccountIds |-> SocialAccount(TRUE, TRUE, TRUE)]
    /\ prefs = [u \in Users |-> NotificationPreferences(TRUE, TRUE)]
    /\ InitExecutor
    /\ InitNotification
    /\ InitAlerts
    /\ InitReplies
    /\ InitExt

NextNotif ==
    \/ NotifyTest
    \/ AddConnection
    \/ Teardown
    \/ Heartbeat
    \/ Sweep
    \/ SendComplete
    \/ FlushBegin
    \/ FlushUser
    \/ FlushEnd

SpecNotif == InitNotif /\ [][NextNotif]_vars

\* Queueing and flushing, with clients that connect and connections that
\* are lost when a write to their socket raises.  The event loop runs every
\* task that is ready: the flush loop wakes from its sleep and goes on, and
\* a socket write returns or raises.
NextNotifLive ==
    \/ NotifyTest
    \/ AddConnection
    \/ SendComplete
    \/ FlushBegin
    \/ FlushUser
    \/ FlushEnd

SpecNotifLive ==
    /\ InitNotif
    /\ [][NextNotifLive]_vars
    /\ WF_vars(FlushBegin)
    /\ WF_vars(FlushUser)
    /\ WF_vars(FlushEnd)
    /\ WF_vars(SendComplete)

\* Pre-posting notifications of the posts of a user whose client is
\* connected, created at different times; a connection whose socket write
\* raises is lost.
InitDedup ==
    /\ now = 0
    /\ posts = [p \in PostIds |-> ScheduledPost("photo", "url", 0, "none", "text", NULL, MaxTime + 1)]
    /\ accounts = [a \in AccountIds |-> SocialAccount(TRUE, TRUE, TRUE)]
    /\ prefs = [u \in Users |-> NotificationPreferences(TRUE, TRUE)]
    /\ InitExecutor
    /\ InitStore
    /\ Connected
    /\ InitAlerts
    /\ InitReplies
    /\ InitExt

NextDedup ==
    \/ NotifyPrePosting
    \/ SendComplete
    \/ Tick

SpecDedup == InitDedup /\ [][NextDedup]_vars

\* Pre-posting alerts of posts that are due at different times and may be
\* moved to a later time.  An alert is due before its post is, and the clock
\* stops when the last post is due: the executor does not run.  No client
\* is connected.
InitAlert ==
    /\ now = 0
    /\ posts \in [PostIds -> { ScheduledPost("photo", "url", 0, "none", "text", NULL, t) :
                                 t \in {LeadTime, MaxTime} }]
    /\ accounts = [a \in AccountIds |-> SocialAccount(TRUE, TRUE, FALSE)]
    /\ prefs \in [Users -> { NotificationPreferences(pre, TRUE) : pre \in BOOLEAN }]
    /\ InitExecutor
    /\ InitNotification
    /\ InitAlerts
    /\ InitReplies
    /\ InitExt

NextAlert ==
    \/ SchedulePreAlert
    \/ AlertFire
    \/ CleanupAlertTracking
    \/ UpdateScheduledPost
    \/ Tick

SpecAlert == InitAlert /\ [][NextAlert]_vars

\* The reply paths of one account over comments of every kind; nothing is
\* scheduled and no client is connected.
InitReply ==
    /\ now = 0
    /\ posts = [p \in PostIds |-> ScheduledPost("photo", "url", 0, "none", "text", NULL, MaxTime + 1)]
    /\ accounts = [a \in AccountIds |-> SocialAccount(TRUE, TRUE, TRUE)]
    /\ prefs = [u \in Users |-> NotificationPreferences(TRUE, TRUE)]
    /\ InitExecutor
    /\ InitNotification
    /\ InitAlerts
    /\ comments \in [CommentIds -> { Comment(own, ai) : own, ai \in BOOLEAN }]
    /\ InitReplyPaths
    /\ InitExt

NextReply ==
    \/ EngineCheck
    \/ EngineReply
    \/ WebhookCheck
    \/ WebhookReply
    \/ EnableGlobalAutoReply
    \/ GlobalCheck
    \/ GlobalReply
    \/ GlobalDone
    \/ DisableGlobalAutoReply
    \/ PollNewPostsAndComments

SpecReply == InitReply /\ [][NextReply]_vars

\* Calls of start and stop in any order, and the passes of the coroutines
\* they leave behind, over one photo post that is due; the account is
\* connected and has its credentials, no client is connected.
InitLoops ==
    /\ now = 0
    /\ \E img \in {"none", "url"} :
          posts = [p \in PostIds |->
                     ScheduledPost("photo", img, 0, "none", "text", NULL,
                                   IF p = 1 THEN 0 ELSE MaxTime + 1)]
    /\ accounts = [a \in AccountIds |-> SocialAccount(TRUE, TRUE, TRUE)]
    /\ prefs = [u \in Users |-> NotificationPreferences(TRUE, TRUE)]
    /\ InitExecutor
    /\ InitNotification
    /\ InitAlerts
    /\ InitReplies
    /\ InitExt

NextLoops ==
    \/ SchedulerStart
    \/ SchedulerStop
    \/ \E i \in DOMAIN loops : LoopCheck(i)
    \/ \E i \in DOMAIN loops : LoopExecuteOne(i)
    \/ \E i \in DOMAIN loops : LoopNotify(i)
    \/ \E i \in DOMAIN loops : LoopFinal(i)
    \/ \E i \in DOMAIN loops : LoopEndPass(i)
    \/ \E i \in DOMAIN loops : LoopWake(i)

SpecLoops == InitLoops /\ [][NextLoops]_vars

\* The eligibility filters over every candidate comment.
\* Every reply path of the Instagram account and the Facebook engine of a
\* page at once, over top-level comments of other users and of the account
\* or page itself; the page's comments have the authorship of the account's.
InitPaths ==
    /\ now = 0
    /\ posts = [p \in PostIds |-> ScheduledPost("photo", "url", 0, "none", "text", NULL, MaxTime + 1)]
    /\ accounts = [a \in AccountIds |-> SocialAccount(TRUE, TRUE, TRUE)]
    /\ prefs = [u \in Users |-> NotificationPreferences(TRUE, TRUE)]
    /\ InitExecutor
    /\ InitNotification
    /\ InitAlerts
    /\ comments \in [CommentIds -> { Comment(own, FALSE) : own \in BOOLEAN }]
    /\ InitReplyPaths
    /\ InitNoCandidate
    /\ fb_comments = [c \in CommentIds |-> FbComment(comments[c].own, "none")]
    /\ fb_replied = [c \in CommentIds |-> FALSE]
    /\ fb_pc = Idle
    /\ InitNoCycle
    /\ InitNoCall
    /\ InitTasksStarted
    /\ InitNoAddition
    /\ InitNotStarted
    /\ InitNoDm
    /\ InitNoArrival
    /\ InitNoBulk
    /\ InitNoLookup
    /\ InitNoListing
    /\ InitNoRule
    /\ InitNoQuota
    /\ InitNoPass
    /\ InitNoRulePass

NextPaths ==
    \/ EngineCheck
    \/ EngineReply
    \/ WebhookCheck
    \/ WebhookReply
    \/ EnableGlobalAutoReply
    \/ GlobalCheck
    \/ GlobalReply
    \/ GlobalDone
    \/ DisableGlobalAutoReply
    \/ PollNewPostsAndComments
    \/ FbProcessPostComments
    \/ FbGenerateAndPostReply

SpecPaths == InitPaths /\ [][NextPaths]_vars

\* The publication executor over photo posts that have no media yet, with
\* and without a strategy plan, of an account that is connected and has
\* its credentials.
InitPhoto ==
    /\ now = MaxTime - 1
    /\ posts \in [PostIds -> { ScheduledPost("photo", "none", 0, "none", "text", strat, now) :
                                 strat \in {NULL, 1} }]
    /\ accounts = [a \in AccountIds |-> SocialAccount(TRUE, TRUE, TRUE)]
    /\ prefs \in [Users -> { NotificationPreferences(TRUE, s) : s \in BOOLEAN }]
    /\ InitExecutor
    /\ InitNotification
    /\ InitAlerts
    /\ InitReplies
    /\ InitExt

SpecPhoto == InitPhoto /\ [][NextSched]_vars

\* One call of execute_scheduled_instagram_post on a row the authoring
\* surface created, with every answer of the generator, the upload and the
\* publisher.
InitExecute ==
    /\ InitQuiet
    /\ InitNoCandidate
    /\ InitNoThreads
    /\ InitNoCycle
    /\ \E row \in PostTemplates(0), acct \in AccountStates :
          \E env \in EnvsFor(row) : call = [row |-> row, acct |-> acct, env |-> env]
    /\ call_result = NotCalled
    /\ InitTasksStarted
    /\ InitNoAddition
    /\ InitNotStarted
    /\ InitNoDm
    /\ InitNoArrival
    /\ InitNoBulk
    /\ InitNoLookup
    /\ InitNoListing
    /\ InitNoRule
    /\ InitNoQuota
    /\ InitNoPass
    /\ InitNoRulePass

NextExecute == ApplyExecute

SpecExecute == InitExecute /\ [][NextExecute]_vars

\* The loops of the repeating tasks from startup to shutdown; what an
\* iteration does is left open, it returns or it raises.
InitTasks ==
    /\ InitQuiet
    /\ InitNoCandidate
    /\ InitNoThreads
    /\ InitNoCycle
    /\ InitNoCall
    /\ InitTasksStarted
    /\ InitNoAddition
    /\ InitNotStarted
    /\ InitNoDm
    /\ InitNoArrival
    /\ InitNoBulk
    /\ InitNoLookup
    /\ InitNoListing
    /\ InitNoRule
    /\ InitNoQuota
    /\ InitNoPass
    /\ InitNoRulePass

NextTasks ==
    \/ \E t \in Tasks : BeginIteration(t)
    \/ \E t \in Tasks : ExitLoop(t)
    \/ \E t \in Tasks : BodyReturns(t)
    \/ \E t \in Tasks : BodyRaises(t)
    \/ \E t \in Tasks : WakeUp(t)
    \/ ShutdownEvent

SpecTasks == InitTasks /\ [][NextTasks]_vars

\* The loops while the application is up: the event loop runs every task
\* that is ready, an iteration returns or raises, and a sleep ends.
NextTasksLive ==
    \/ \E t \in Tasks : BeginIteration(t)
    \/ \E t \in Tasks : BodyReturns(t)
    \/ \E t \in Tasks : BodyRaises(t)
    \/ \E t \in Tasks : WakeUp(t)

SpecTasksLive ==
    /\ InitTasks
    /\ [][NextTasksLive]_vars
    /\ \A t \in Tasks : WF_vars(BeginIteration(t))
    /\ \A t \in Tasks : WF_vars(BodyReturns(t) \/ BodyRaises(t))
    /\ \A t \in Tasks : WF_vars(WakeUp(t))

\* One addition to an offline queue of every length up to the limit.
InitAdd ==
    /\ InitQuiet
    /\ InitNoCandidate
    /\ InitNoThreads
    /\ InitNoCycle
    /\ InitNoCall
    /\ InitTasksStarted
    /\ adding \in Additions
    /\ added = NotAdded
    /\ InitNotStarted
    /\ InitNoDm
    /\ InitNoArrival
    /\ InitNoBulk
    /\ InitNoLookup
    /\ InitNoListing
    /\ InitNoRule
    /\ InitNoQuota
    /\ InitNoPass
    /\ InitNoRulePass

NextAdd == AddToQueue

SpecAdd == InitAdd /\ [][NextAdd]_vars

\* The poll cycles of one Instagram rule over the comments of its posts,
\* with a database that returns time stamps with a time zone (PostgreSQL)
\* or without one (SQLite).
InitCycle ==
    /\ now = 0
    /\ posts = [p \in PostIds |-> ScheduledPost("photo", "url", 0, "none", "text", NULL, MaxTime + 1)]
    /\ accounts = [a \in AccountIds |-> SocialAccount(TRUE, TRUE, TRUE)]
    /\ prefs = [u \in Users |-> NotificationPreferences(TRUE, TRUE)]
    /\ InitExecutor
    /\ InitNotification
    /\ InitAlerts
    /\ comments \in [CommentIds -> { Comment(own, ai) : own, ai \in BOOLEAN }]
    /\ InitReplyPaths
    /\ InitNoCandidate
    /\ InitNoThreads
    /\ db_aware \in BOOLEAN
    /\ last_execution_at = NoTime
    /\ cycle = NoCycle
    /\ failed_in = [c \in CommentIds |-> {}]
    /\ tried_in = [c \in CommentIds |-> {}]
    /\ InitNoCall
    /\ InitTasksStarted
    /\ InitNoAddition
    /\ InitNotStarted
    /\ InitNoDm
    /\ InitNoArrival
    /\ InitNoBulk
    /\ InitNoLookup
    /\ InitNoListing
    /\ InitNoRule
    /\ InitNoQuota
    /\ InitNoPass
    /\ InitNoRulePass

NextCycle ==
    \/ ProcessRuleAutoReplies
    \/ ProcessPostComments
    \/ GenerateAndPostReply
    \/ UpdateLastExecution
    \/ Tick

SpecCycle == InitCycle /\ [][NextCycle]_vars

\* One eligibility filter asked about one comment.
InitFilter ==
    /\ InitQuiet
    /\ cand \in Candidates
    /\ verdict = "none"
    /\ InitNoThreads
    /\ InitNoCycle
    /\ InitNoCall
    /\ InitTasksStarted
    /\ InitNoAddition
    /\ InitNotStarted
    /\ InitNoDm
    /\ InitNoArrival
    /\ InitNoBulk
    /\ InitNoLookup
    /\ InitNoListing
    /\ InitNoRule
    /\ InitNoQuota
    /\ InitNoPass
    /\ InitNoRulePass

NextFilter == ApplyFilter

SpecFilter == InitFilter /\ [][NextFilter]_vars

\* The two tasks that poll the Facebook rule, and the clock; the rule has
\* not been executed yet.
InitRules ==
    /\ InitQuiet
    /\ InitExt

NextRules ==
    \/ \E t \in Pollers : FbSelectRule(t)
    \/ \E t \in Pollers : FbReadLastCheck(t)
    \/ \E t \in Pollers : FbUpdateLastExecution(t)
    \/ Tick

SpecRules == InitRules /\ [][NextRules]_vars

\* One pass after another over posts that are due, for every kind of post,
\* with the account missing or connected.
InitPass ==
    /\ now = 0
    /\ posts \in [PostIds -> PostTemplates(0)]
    /\ accounts \in [AccountIds -> {SocialAccount(FALSE, FALSE, FALSE),
                                     SocialAccount(TRUE, TRUE, TRUE)}]
    /\ prefs = [u \in Users |-> NotificationPreferences(TRUE, TRUE)]
    /\ InitExecutor
    /\ InitNotification
    /\ InitAlerts
    /\ InitReplies
    /\ InitExt

NextPass == PassStart \/ PassExecuteReturns \/ PassExecuteRaises \/ PassEnd

SpecPass == InitPass /\ [][NextPass]_vars

\* One poll cycle of the Instagram rule for every number of recent comments
\* under each selected post.
InitQuota ==
    /\ InitQuiet
    /\ InitNoCandidate
    /\ InitNoThreads
    /\ InitNoCycle
    /\ InitNoCall
    /\ InitTasksStarted
    /\ InitNoAddition
    /\ InitNotStarted
    /\ InitNoDm
    /\ InitNoArrival
    /\ InitNoBulk
    /\ InitNoLookup
    /\ InitNoListing
    /\ InitNoRule
    /\ InitNoPass
    /\ InitNoRulePass
    /\ \E recent \in [Media -> 0..MaxRecent] : quota = [NoQuota EXCEPT !.recent = recent]

NextQuota == QuotaShuffle \/ QuotaNextPost \/ QuotaComment \/ QuotaReturn \/ QuotaUpdate

SpecQuota == InitQuota /\ [][NextQuota]_vars

\* The resolution of the posts of a rule, for every rule and account.
InitResolve ==
    /\ InitQuiet
    /\ InitNoCandidate
    /\ InitNoThreads
    /\ InitNoCycle
    /\ InitNoCall
    /\ InitTasksStarted
    /\ InitNoAddition
    /\ InitNotStarted
    /\ InitNoDm
    /\ InitNoArrival
    /\ InitNoBulk
    /\ InitNoLookup
    /\ InitNoListing
    /\ InitNoQuota
    /\ InitNoPass
    /\ InitNoRulePass
    /\ rule_in \in RuleInputs
    /\ post_ids = NotResolved

NextResolve == ResolveSelectedPosts

SpecResolve == InitResolve /\ [][NextResolve]_vars

\* One listing of the comments under a Facebook post, for every shape of
\* their threads and every author.
InitThreads ==
    /\ InitQuiet
    /\ InitNoCandidate
    /\ InitNoThreads
    /\ InitNoCycle
    /\ InitNoCall
    /\ InitTasksStarted
    /\ InitNoAddition
    /\ InitNotStarted
    /\ InitNoDm
    /\ InitNoArrival
    /\ InitNoBulk
    /\ InitNoLookup
    /\ InitNoRule
    /\ InitNoQuota
    /\ InitNoPass
    /\ InitNoRulePass
    /\ listing \in Listings
    /\ threads = NotGrouped

NextThreads == ProcessListing

SpecThreads == InitThreads /\ [][NextThreads]_vars

\* Pre-posting alerts of posts that are edited, deleted or executed before
\* their alert fires; the requests that edit or delete a post come for
\* posts whose alert is armed.  The clock starts one unit before the
\* alerts are due and the executor runs; the account has no credentials,
\* so a post the executor takes fails.  No client is connected.
InitFire ==
    /\ now = MaxTime - 1
    /\ posts = [p \in PostIds |->
                  ScheduledPost("photo", "url", 0, "none", "text", NULL, MaxTime + LeadTime)]
    /\ accounts = [a \in AccountIds |-> SocialAccount(TRUE, TRUE, FALSE)]
    /\ prefs = [u \in Users |-> NotificationPreferences(TRUE, TRUE)]
    /\ InitExecutor
    /\ InitNotification
    /\ InitAlerts
    /\ InitReplies
    /\ InitExt

\* the posts whose alert is armed and has not fired
Armed == { alert_tasks[t].post : t \in { i \in DOMAIN alert_tasks : alert_tasks[i].state = "sleeping" } }

NextFire ==
    \/ SchedulePreAlert
    \/ AlertFire
    \/ \E p \in Armed : BringForwardScheduledPost(p)
    \/ \E p \in Armed : DeleteScheduledPost(p)
    \/ StartPass
    \/ ExecuteOne
    \/ EndPass
    \/ Tick

SpecFire == InitFire /\ [][NextFire]_vars

\* Requests that change the notification preferences of a user, and
\* failures reported for the posts of that user; no client is connected.
InitPrefs == InitQuiet /\ InitExt

NextPrefs == UpdateUserPreferences \/ SendFailureNotification \/ Tick

SpecPrefs == InitPrefs /\ [][NextPrefs]_vars

\* One notification about one post, for every content of the two post
\* tables; the post exists in the table it is taken from.
InitOwner ==
    /\ InitQuiet
    /\ InitNoCandidate
    /\ InitNoThreads
    /\ InitNoCycle
    /\ InitNoCall
    /\ InitTasksStarted
    /\ InitNoAddition
    /\ InitNotStarted
    /\ InitNoDm
    /\ InitNoArrival
    /\ InitNoBulk
    /\ InitNoListing
    /\ InitNoRule
    /\ InitNoQuota
    /\ InitNoPass
    /\ InitNoRulePass
    /\ lookup \in { l \in Lookups : l[l.table][l.id] # NULL }
    /\ notified = NotSent

NextOwner == NotifyAboutPost

SpecOwner == InitOwner /\ [][NextOwner]_vars

\* The passes of the bulk composer scheduler over bulk posts that are
\* drafts or scheduled and due, with the account connected or not.
InitBulk ==
    /\ now = 0
    /\ posts = [p \in PostIds |-> ScheduledPost("photo", "url", 0, "none", "text", NULL, MaxTime + 1)]
    /\ accounts \in [AccountIds -> {SocialAccount(TRUE, FALSE, TRUE), SocialAccount(TRUE, TRUE, TRUE)}]
    /\ prefs = [u \in Users |-> NotificationPreferences(TRUE, TRUE)]
    /\ InitExecutor
    /\ InitNotification
    /\ InitAlerts
    /\ InitReplies
    /\ InitNoCandidate
    /\ InitNoThreads
    /\ InitNoCycle
    /\ InitNoCall
    /\ InitTasksStarted
    /\ InitNoAddition
    /\ InitNotStarted
    /\ InitNoDm
    /\ InitNoArrival
    /\ InitNoLookup
    /\ InitNoListing
    /\ InitNoRule
    /\ InitNoQuota
    /\ InitNoPass
    /\ InitNoRulePass
    /\ bulk_rows \in [PostIds -> { BulkComposerContent(st) : st \in {"draft", "scheduled"} }]
    /\ bulk_pass = NoBulkPass
    /\ bulk_posted = [p \in PostIds |-> 0]

NextBulk == BulkProcessDuePosts \/ BulkPublishPost \/ BulkEndPass

SpecBulk == InitBulk /\ [][NextBulk]_vars

\* The poll cycles of an active Instagram rule, one after another without
\* end, while other users write comments under its post.  The polling task
\* runs the cycle whenever it is ready; nothing is assumed about the users
\* or the clock.
InitArrive == InitQuiet /\ InitExt

NextArrive == WriteComment \/ PollBegin \/ PollComment \/ PollEnd \/ PollTick

SpecArrive ==
    /\ InitArrive
    /\ [][NextArrive]_vars
    /\ WF_vars(PollBegin)
    /\ WF_vars(PollComment)
    /\ WF_vars(PollEnd)

\* The polling passes of the scheduler with the loop of start() running:
\* a pass begins whenever posts are due, and every step of a pass that can
\* be taken is taken.  Nothing is assumed about the clock.  The first post
\* is any row of the authoring surface, the others are photo posts with
\* their image.
InitSchedLive ==
    /\ now = MaxTime - 1
    /\ posts \in { f \in [PostIds -> PostTemplates(now)] :
                       \A p \in PostIds :
                           p > 1 => f[p] = ScheduledPost("photo", "url", 0, "none", "text", 0, now) }
    /\ accounts \in [AccountIds -> AccountStates]
    /\ prefs \in [Users -> {NotificationPreferences(TRUE, s) : s \in BOOLEAN}]
    /\ InitExecutor
    /\ InitNotification
    /\ InitAlerts
    /\ InitReplies
    /\ InitExt

SpecSchedLive ==
    /\ InitSchedLive
    /\ [][NextSched]_vars
    /\ WF_vars(StartPass)
    /\ WF_vars(ExecuteOne)
    /\ WF_vars(ExecNotify)
    /\ WF_vars(ExecFinal)
    /\ WF_vars(EndPass)

\* DM webhook deliveries in any order, with redeliveries, while the owner
\* switches DM auto-reply on and off.
InitDm == InitQuiet /\ InitExt

NextDm == ToggleInstagramDmAutoReply \/ HandleIncomingDmWebhook

SpecDm == InitDm /\ [][NextDm]_vars

\* ------------------------------------------------------------------------
\* Properties of the publication executor (SpecSched)
\* ------------------------------------------------------------------------
\* execute_scheduled_instagram_post has been entered for post p and has not returned
Executing(p) == exec_pc \in {"notify", "wait", "final"} /\ due # <<>> /\ Head(due) = p

Terminal(row) == row.status \in {"posted", "failed"}

\* C1: once the state of a Scheduled Post is posted or failed it never
\* changes again, and is_active is false from the return of the execution
\* that made it terminal on.
C1_TerminalIsFinalAndInactive ==
    [][\A p \in PostIds :
          Terminal(posts[p]) =>
              /\ posts'[p].status = posts[p].status
              /\ (~Executing(p)' => ~posts'[p].is_active)]_vars

\* C4: every Scheduled Post that execute_scheduled_instagram_post left in
\* state failed has a persisted failure Notification of its owner that
\* carries an error text.
C4_FailedHasNotification ==
    \A p \in PostIds :
        (posts[p].status = "failed" /\ ~Executing(p)) =>
            \E n \in notifications : /\ n.post_id = p
                                     /\ n.user_id = posts[p].user_id
                                     /\ n.type = "failure"
                                     /\ n.error_message # {}

\* the retry ceiling of a transient failure class
Ceiling(outcome) == IF outcome = "ai_rate_limit" THEN MaxAiRetries ELSE MaxPublishRetries

\* C5: a post whose last N executions failed transiently is, for N up to
\* the ceiling (3 for publish errors, 5 for media-generation rate limits),
\* still scheduled and active with retry count N and a publish timestamp
\* later than the failed execution, and is failed once N exceeds the ceiling.
C5_BackoffMonotonic ==
    \A p \in PostIds :
        (last_outcome[p] \in {"publish_transient", "ai_rate_limit"} /\ ~Executing(p)) =>
            IF streak[p] <= Ceiling(last_outcome[p])
            THEN /\ posts[p].status = "scheduled"
                 /\ posts[p].is_active
                 /\ HasAttr(posts[p], "retry_count")
                 /\ posts[p].retry_count = streak[p]
                 /\ posts[p].scheduled_datetime > posts[p].last_executed
            ELSE posts[p].status = "failed"

\* ------------------------------------------------------------------------
\* Properties of the notification service (SpecNotif, SpecNotifLive, SpecDedup)
\* ------------------------------------------------------------------------
\* the messages of user u that a socket write delivered, by the way they came
Sent(u, via) ==
    LET d == SelectSeq(delivered[u], LAMBDA x : x.via = via)
    IN  [i \in 1..Len(d) |-> d[i].msg]

\* the message of the flush of user u that is inside send_message, and the
\* messages of its messages_to_send that are still to come
FlushInFlight(u) ==
    LET f == SelectSeq(inflight, LAMBDA e : e.by.kind = "flush" /\ e.user = u)
    IN  [i \in 1..Len(f) |-> f[i].msg]

FlushRest(u) ==
    IF flush_pc = "send" /\ flush_users # <<>> /\ Head(flush_users) = u THEN flush_rest ELSE <<>>

\* send_websocket_notification(u, n) returns in this step without having
\* suspended: it found no connection, or a connection that is inactive
ReturnsAtOnce(u, n) ==
    /\ next_nid' = next_nid + 1
    /\ n = next_nid
    /\ \E row \in notifications' \ notifications : row.user_id = u
    /\ inflight' = inflight

\* send_websocket_notification(u, n) returns in this step from the send on
\* connection c in which it was suspended
ReturnsFromSend(u, n, c) ==
    \E i \in 1..Len(inflight) :
        /\ inflight[i].by.kind # "flush"
        /\ inflight[i].user = u /\ inflight[i].msg = n /\ inflight[i].conn = c
        /\ ~InSeq(inflight[i], inflight')

\* C6: when send_websocket_notification(user, n) returns, n has been written
\* to the socket of the connection it used or is in the user's offline
\* queue; when the direct send failed, the connection it used is inactive
\* and no connection is registered for the user.
C6_SentOrQueuedOnReturn ==
    [][\A u \in Users, n \in Messages :
          /\ ReturnsAtOnce(u, n) =>
                /\ InSeq(n, pending_messages'[u])
                /\ websocket_connections[u] # NULL =>
                      /\ ~conns'[websocket_connections[u]].is_active
                      /\ websocket_connections'[u] = NULL
          /\ \A c \in DOMAIN conns :
                ReturnsFromSend(u, n, c) =>
                   \/ delivered'[u] = Append(delivered[u], [msg |-> n, via |-> "direct"])
                   \/ /\ delivered'[u] = delivered[u]
                      /\ InSeq(n, pending_messages'[u])
                      /\ ~conns'[c].is_active
                      /\ websocket_connections'[u] = NULL]_vars

\* a direct send has failed and its notification is in the offline queue
C6_Witness ==
    \E u \in Users :
        /\ last_failed.via = "direct"
        /\ InSeq(last_failed.msg, pending_messages[u])
        /\ websocket_connections[u] = NULL
        /\ \E c \in DOMAIN conns : conns[c].user_id = u /\ ~conns[c].is_active

\* as long as no send has failed, the messages a flush has delivered, the
\* one it is sending, the ones it still holds and the ones in the queue
\* are, in this order, the messages in the order they were queued
QueueOrderKept ==
    \A u \in Users :
        last_failed = NoFailure =>
            Sent(u, "flush") \o FlushInFlight(u) \o FlushRest(u) \o pending_messages[u]
                = queued_log[u]

\* a notification stored while its user has no registered connection is
\* appended to the user's offline queue
QueuedWhenOffline ==
    \A u \in Users :
        (next_nid' = next_nid + 1 /\ websocket_connections[u] = NULL
            /\ \E n \in notifications' \ notifications : n.user_id = u)
        => pending_messages'[u] = Append(pending_messages[u], next_nid)

Live(u, c) == websocket_connections[u] = c /\ conns[c].is_active

\* C7: a Notification created while its user has no live connection is
\* appended to the user's offline queue; once a connection is registered,
\* for as long as it stays registered and its sends succeed, the flush
\* delivers every queued message, in the order the messages were queued,
\* and the queue becomes empty.
C7_OfflineQueueIsFlushedInOrder ==
    /\ [][QueuedWhenOffline]_vars
    /\ []QueueOrderKept
    /\ \A u \in Users, c \in ConnIds, m \in Messages :
          (c \in DOMAIN conns /\ Live(u, c) /\ InSeq(m, pending_messages[u]))
              ~> (InSeq(m, Sent(u, "flush")) \/ ~(c \in DOMAIN conns /\ Live(u, c)))
    /\ \A u \in Users, c \in ConnIds :
          (c \in DOMAIN conns /\ Live(u, c) /\ pending_messages[u] # <<>>)
              ~> (pending_messages[u] = <<>> \/ ~(c \in DOMAIN conns /\ Live(u, c)))

C7_Witness ==
    \E u \in Users :
        /\ Len(Sent(u, "flush")) >= 2
        /\ Sent(u, "flush") = queued_log[u]
        /\ pending_messages[u] = <<>>
        /\ last_failed = NoFailure

\* the messages of q from m on
From(q, m) ==
    LET i == CHOOSE i \in 1..Len(q) : q[i] = m
    IN  SubSeq(q, i, Len(q))

\* C8: when a send of the flush for a user fails, the message that failed
\* is put back at the front of the user's offline queue, the messages the
\* flush had taken after it remain behind it in their original order, in
\* front of the messages queued since, and the flush for that user stops.
C8_FlushFailureKeepsEveryMessage ==
    [][\A u \in Users, m \in Messages :
          (/\ last_failed' # last_failed /\ last_failed' = Failure(m, "flush")
           /\ flush_users # <<>> /\ Head(flush_users) = u)
          => LET taken == IF flush_pc = "send"
                          THEN FlushInFlight(u) \o flush_rest
                          ELSE pending_messages[u]
                 since == IF flush_pc = "send" THEN pending_messages[u] ELSE <<>>
             IN  /\ pending_messages'[u] = From(taken, m) \o since
                 /\ flush_pc' = "run"
                 /\ flush_users' = Tail(flush_users)]_vars

\* a call of create_notification that finds a pre_posting row of the pair
\* within the window stores nothing
ExistingIsReturned ==
    \A u \in Users, post \in PostIds :
        (/\ last_create' # last_create
         /\ last_create' = [user |-> u, post |-> post, type |-> "pre_posting",
                            result |-> last_create'.result]
         /\ ExistingPrePosting(u, post) # {})
        => notifications' = notifications /\ last_create'.result = "existing"

NoDuplicateInWindow ==
    \A n1, n2 \in notifications :
        (/\ n1.id # n2.id
         /\ n1.type = "pre_posting" /\ n2.type = "pre_posting"
         /\ n1.user_id = n2.user_id
         /\ n1.post_id = n2.post_id /\ n1.post_id # NULL)
        => \/ n1.created_at - n2.created_at >= DedupWindow
           \/ n2.created_at - n1.created_at >= DedupWindow

\* C10: for every (user, post) pair create_notification never stores two
\* pre_posting rows created within 15 minutes of each other, and a call that
\* finds such a row inserts nothing, whatever other calls are suspended in
\* their sends.
C10_NoDuplicatePrePostingInWindow ==
    /\ []NoDuplicateInWindow
    /\ [][ExistingIsReturned]_vars

C10_Witness ==
    /\ last_create.result = "existing"
    /\ last_create.post # NULL
    /\ inflight # <<>>
    /\ \E n1, n2 \in notifications : n1.id # n2.id /\ n1.post_id = n2.post_id /\ n1.post_id # NULL

\* ------------------------------------------------------------------------
\* Properties of the pre-posting alerts (SpecAlert)
\* ------------------------------------------------------------------------
PrePostingRows(p) == { n \in notifications : n.type = "pre_posting" /\ n.post_id = p }

\* schedule_pre_posting_alert was called twice for post p within the window
TwoCallsInWindow(p) ==
    \E i, j \in DOMAIN alert_calls[p] :
        i < j /\ alert_calls[p][j].at - alert_calls[p][i].at < DedupWindow

\* no deferred alert of post p is still to fire or to finish
AlertsSettled(p) ==
    \A t \in DOMAIN alert_tasks : alert_tasks[t].post = p => alert_tasks[t].state = "done"

SameSchedule(p) ==
    \A i \in DOMAIN alert_calls[p] : alert_calls[p][i].scheduled = alert_calls[p][1].scheduled

C2_AtMostOneSuccessfulReply ==
    \A c \in CommentIds : replies_posted[c] <= 1

\* C3: a comment has a row in the ledger only after a reply_to_comment call
\* for it returned success; a reply that failed leaves the ledger without a
\* row for the comment, on every reply path.
C3_RowOnlyAfterSuccessfulReply ==
    \A c \in reply_log : replies_posted[c] >= 1

\* ------------------------------------------------------------------------
\* Properties of the eligibility filters (SpecFilter)
\* ------------------------------------------------------------------------

\* C11: the eligibility filter returns false for every comment whose text
\* matches the AI-response heuristic of its engine, and true for a top-level
\* comment of another user that does not match it and has not been replied
\* to.
C11_FilterSkipsAiAndTakesOrdinary ==
    verdict # "none" =>
        /\ IsAiResponse(cand) => verdict = "skip"
        /\ (~cand.own /\ ~IsAiResponse(cand) /\ cand.parent = "none" /\ ~cand.replied)
              => verdict = "reply"

\* C12: on no path - the Instagram engine, the webhook, the scan of
\* enable_global_auto_reply, the background poll, the Facebook engine - is
\* the publisher's reply called for a comment that the monitored account or
\* page wrote itself: a path that is inside the call holds a comment of
\* another author, and the background poll never reaches the call.
C12_NoReplyToOwnComment ==
    /\ \A w \in Paths : reply_pc[w].pc = "replying" => ~comments[reply_pc[w].comment].own
    /\ fb_pc.pc = "replying" => ~fb_comments[fb_pc.comment].own
    /\ \A c \in CommentIds : comments[c].own => replies_posted[c] = 0

\* Own comments are listed on both platforms while every Instagram path and
\* the Facebook engine are inside the publisher's reply.
C12_Witness ==
    /\ \E c \in CommentIds : comments[c].own
    /\ \E c \in CommentIds : fb_comments[c].own
    /\ \A w \in Paths : reply_pc[w].pc = "replying"
    /\ fb_pc.pc = "replying"

\* ------------------------------------------------------------------------
\* Properties of the execution of one post (SpecPhoto)
\* ------------------------------------------------------------------------
SuccessRows(p) == { n \in notifications : n.post_id = p /\ n.type = "success" }

\* the execution of post p is over and the publisher returned success in it
PublishedAndDone(p) == last_outcome[p] = "published" /\ ~Executing(p)

\* C14: the execution of a due photo post that has no media, for which the
\* generator returns a URL and the publisher returns success with id p,
\* leaves the post posted and inactive with platform post id p, and exactly
\* one success Notification for it.
C14_GeneratedPhotoIsPostedAndNotified ==
    \A p \in PostIds :
        PublishedAndDone(p) =>
            /\ posts[p].status = "posted"
            /\ ~posts[p].is_active
            /\ posts[p].post_id \in PlatformPostIds
            /\ posts[p].image_url = "url"
            /\ Cardinality(SuccessRows(p)) = 1

\* ------------------------------------------------------------------------
\* Properties of the retries of the publication executor (SpecSched)
\* ------------------------------------------------------------------------
FailureRows(p) == { n \in notifications : n.post_id = p /\ n.type = "failure" }

\* the last execution of post p is over, and in it the publisher answered
\* with a rate-limit error for the first time
FirstRateLimitAndDone(p) ==
    /\ last_outcome[p] = "publish_transient"
    /\ streak[p] = 1
    /\ ~Executing(p)

\* C16: when the publisher answers the first attempt with an error that
\* contains "rate limit", the post has retry count 1, its publish time is
\* the time of the attempt plus the base delay times 1, it is scheduled and
\* active, and no failure notification exists for it.
C16_RateLimitReschedulesOnce ==
    \A p \in PostIds :
        FirstRateLimitAndDone(p) =>
            /\ HasAttr(posts[p], "retry_count") /\ posts[p].retry_count = 1
            /\ posts[p].scheduled_datetime = posts[p].last_executed + PublishRetryDelay * 1
            /\ posts[p].status = "scheduled"
            /\ posts[p].is_active
            /\ FailureRows(p) = {}

\* ------------------------------------------------------------------------
\* Properties of one call of the executor (SpecExecute)
\* ------------------------------------------------------------------------
\* the call is on a carousel post without media for which exactly one image
\* is generated
OneCarouselImage ==
    /\ call.row.post_type = "carousel"
    /\ call.row.media_urls = 0
    /\ call.env.ncar = 1

\* the retry count of a row, zero for a row that has never been retried
RetryCount(row) == IF HasAttr(row, "retry_count") THEN row.retry_count ELSE 0

\* C15: for a carousel that needs at least three generated images and gets
\* one, nothing is published and the post stays scheduled with its retry
\* count incremented when it is under the retry ceiling, or is failed when
\* it is at the ceiling.
C15_PartialCarouselIsRetried ==
    (call_result # NotCalled /\ OneCarouselImage) =>
        /\ ~call_result.published
        /\ IF RetryCount(call.row) < MaxAiRetries
           THEN /\ call_result.saved # NoRow
                /\ call_result.saved.status = "scheduled"
                /\ RetryCount(call_result.saved) = RetryCount(call.row) + 1
           ELSE /\ call_result.saved # NoRow
                /\ call_result.saved.status = "failed"

\* ------------------------------------------------------------------------
\* Properties of the repeating tasks (SpecTasksLive, SpecTasks)
\* ------------------------------------------------------------------------

\* C17: an exception inside one iteration of a repeating task is caught at
\* the iteration boundary: the task whose iteration raised runs a later
\* iteration, and no task ever stops.
C17_ExceptionEndsOnlyTheIteration ==
    /\ [](\A t \in Tasks : task_pc[t] # "ended")
    /\ \A t \in Tasks : (task_pc[t] = "handler") ~> (task_pc[t] = "body")

\* The iteration of the publication executor raised while every other task
\* is inside an iteration.
C17_Witness ==
    /\ task_pc["scheduler"] = "handler"
    /\ \A t \in Tasks \ {"scheduler"} : task_pc[t] = "body"

\* C18: after shutdown has been signalled no repeating task starts a new
\* iteration, and an iteration that is in flight runs to completion.
C18_NoIterationStartsAfterShutdown ==
    after_shutdown = {}

\* ------------------------------------------------------------------------
\* Properties of the offline queue (SpecAdd)
\* ------------------------------------------------------------------------

\* C19: an offline queue holds at most 50 messages, and adding a message to
\* a full queue drops the oldest message and keeps the new one together
\* with the other messages that were queued.
C19_FullQueueDropsOldest ==
    added # NotAdded =>
        /\ Len(added) <= PendingMaxLen
        /\ InSeq(adding.msg, added)
        /\ Len(adding.queue) = PendingMaxLen =>
              /\ ~InSeq(Head(adding.queue), added)
              /\ \A i \in 2..PendingMaxLen : InSeq(adding.queue[i], added)

\* ------------------------------------------------------------------------
\* Properties of the scheduler's coroutines (SpecLoops)
\* ------------------------------------------------------------------------

\* C20: for every Scheduled Post the publisher returns success at most once
\* over the lifetime of the post, for any sequence of polling passes,
\* retries and calls of the scheduler's start and stop.
C20_PublishedAtMostOnce ==
    \A p \in PostIds : publish_ok[p] <= 1

\* ------------------------------------------------------------------------
\* Properties of the poll cycles (SpecCycle)
\* ------------------------------------------------------------------------

\* C13: a comment whose reply failed in one poll cycle stays eligible: the
\* next poll cycle of the rule, once it has ended, has evaluated the comment
\* and attempted the reply again.
C13_FailedReplyIsRetriedNextCycle ==
    \A c \in CommentIds : \A k \in failed_in[c] :
        (cycle.no > k + 1 \/ (cycle.no = k + 1 /\ cycle.pc = "idle")) => k + 1 \in tried_in[c]

\* ------------------------------------------------------------------------
\* Properties of the passes over a rule (SpecRules)
\* ------------------------------------------------------------------------

\* C21: no two polling passes process the same rule at the same time: while
\* one pass is between reading the rule's watermark and committing the new
\* last-execution timestamp, no other task reads or updates the rule's
\* bookkeeping.
C21_OnePassPerRule ==
    \A t, u \in Pollers :
        (rule_pass[t].pc = "comments" /\ rule_pass[u].pc = "comments") => t = u

\* ------------------------------------------------------------------------
\* Properties of one call of the executor with the account missing or
\* disconnected (SpecExecute)
\* ------------------------------------------------------------------------
AccountUnavailable == ~call.acct.exists \/ ~call.acct.is_connected

\* C22: when the owning account of a due post is missing or not connected,
\* the execution makes no publish call and leaves the post row unchanged
\* (status, is_active, retry count, publish timestamp, media references),
\* so the post is selected again on the next poll.
C22_UnavailableAccountLeavesPostUnchanged ==
    (call_result # NotCalled /\ AccountUnavailable) =>
        /\ ~call_result.published
        /\ call_result.row = call.row
        /\ call_result.saved = NoRow

\* ------------------------------------------------------------------------
\* Properties of one call of the executor whose publish fails with a
\* media-related error (SpecExecute)
\* ------------------------------------------------------------------------
MediaFailure == call_result # NotCalled /\ call_result.outcome = "publish_media"

MediaCleared(row) ==
    /\ row.post_type = "photo" => row.image_url = "none"
    /\ row.post_type = "carousel" => row.media_urls = 0
    /\ row.post_type = "reel" => row.video_url = "none"

\* C23: when a publish fails with a media-related error and the retry count
\* of the post is below 2, the media reference of its kind is cleared, the
\* retry count is incremented by one, the publish timestamp is set to now
\* + 5 minutes and the post stays scheduled and active; with the retry
\* count at 2 or more the post becomes failed.
C23_MediaFailureClearsAndRetries ==
    MediaFailure =>
        IF RetryCount(call.row) < MaxMediaRetries
        THEN /\ call_result.row.status = "scheduled"
             /\ call_result.row.is_active
             /\ MediaCleared(call_result.row)
             /\ RetryCount(call_result.row) = RetryCount(call.row) + 1
             /\ call_result.row.scheduled_datetime = now + MediaRetryDelay
        ELSE call_result.row.status = "failed"

\* ------------------------------------------------------------------------
\* Properties of the committed rows of the executor (SpecSched)
\* ------------------------------------------------------------------------

\* C24: on every exit path of an execution that changes the status of the
\* post, the status, the is_active flag and the last execution timestamp
\* are committed together, so no committed row has status posted or failed
\* with is_active true or without the execution timestamp of that run.
C24_StatusFlagAndTimestampCommittedTogether ==
    \A p \in PostIds :
        posts[p].status \in {"posted", "failed"} =>
            /\ ~posts[p].is_active
            /\ posts[p].last_executed # NoTime

\* ------------------------------------------------------------------------
\* Properties of one pass over the due posts (SpecPass)
\* ------------------------------------------------------------------------

C27_CycleEndSetsLastExecution ==
    [][(cycle.pc = "scan" /\ cycle'.pc = "idle") => last_execution_at' = now]_vars

\* a cycle in which one reply failed and one succeeded has ended, and the
\* timestamp is the time of its end
C27_Witness ==
    /\ cycle.pc = "idle"
    /\ cycle.no = 1
    /\ \E c \in CommentIds : 1 \in failed_in[c]
    /\ \E c \in CommentIds : 1 \in tried_in[c] \ failed_in[c]
    /\ now > 0
    /\ last_execution_at = now

\* ------------------------------------------------------------------------
\* Properties of the resolution of a rule's posts (SpecResolve)
\* ------------------------------------------------------------------------
EmptySelection ==
    /\ post_ids # NotResolved
    /\ rule_in.is_connected
    /\ rule_in.page_access_token
    /\ rule_in.selected = {}
    /\ rule_in.stored \cup rule_in.listed # {}

\* C28: for an active rule of a connected account whose selected-post list
\* is empty, a poll cycle evaluates comments on all posts of the account
\* (those of the store, else those the platform lists) rather than on none.
C28_EmptySelectionMeansAllPosts ==
    EmptySelection =>
        /\ post_ids # {}
        /\ post_ids \in {rule_in.stored, rule_in.listed}

\* ------------------------------------------------------------------------
\* Properties of the threads of a Facebook post (SpecThreads)
\* ------------------------------------------------------------------------
\* the top-level comment a comment hangs under
RECURSIVE TopLevelAncestor(_, _)
TopLevelAncestor(cs, c) ==
    IF cs[c].parent = NULL THEN c ELSE TopLevelAncestor(cs, cs[c].parent)

\* the comment is the most recent one under its top-level ancestor
MostRecentOfThread(cs, c) ==
    \A d \in DOMAIN cs : TopLevelAncestor(cs, d) = TopLevelAncestor(cs, c) => d <= c

\* the comment answers a reply of the engine
RepliesToEngine(cs, c) ==
    /\ cs[c].parent # NULL
    /\ cs[cs[c].parent].own
    /\ cs[cs[c].parent].ai

\* C29: comments are grouped by their top-level ancestor, only the most
\* recent comment of each thread is evaluated, and a reply is attempted
\* only if that comment is a new top-level comment or a direct reply to a
\* reply of the engine.
C29_LatestOfThreadOnly ==
    threads # NotGrouped =>
        /\ \A c \in threads.latest : MostRecentOfThread(listing, c)
        /\ \A c \in threads.attempted :
              /\ MostRecentOfThread(listing, c)
              /\ listing[c].parent = NULL \/ RepliesToEngine(listing, c)

\* ------------------------------------------------------------------------
\* Properties of the deferred pre-alert tasks (SpecAlert)
\* ------------------------------------------------------------------------
\* the deferred tasks of a post that are still in their sleep
PendingAlertTasks(p) ==
    { t \in DOMAIN alert_tasks : alert_tasks[t].post = p /\ alert_tasks[t].state = "sleeping" }

\* C30: whatever the calls of schedule_pre_posting_alert, and with the
\* hourly cleanup of the alert tracking between them, at most one deferred
\* pre-alert task is pending for a post at any time.
C30_AtMostOnePendingAlertTask ==
    \A p \in PostIds : Cardinality(PendingAlertTasks(p)) <= 1

\* ------------------------------------------------------------------------
\* Properties of the deferred pre-alert tasks at fire time (SpecFire)
\* ------------------------------------------------------------------------
\* the deferred tasks that finish in this step
Finishing == { t \in DOMAIN alert_tasks : alert_tasks[t].state # "done" /\ alert_tasks'[t].state = "done" }

\* C31: when a deferred pre-alert task has fired and finished, the id of
\* its post is absent from scheduled_alerts, whether a notification was
\* created, the post was gone or no longer scheduled, or an error occurred.
C31_GuardClearedWhenTaskFinishes ==
    [][\A t \in Finishing : alert_tasks[t].post \notin scheduled_alerts']_vars

\* the pre_posting rows of a post
PrePostingOf(rows, p) == { n \in rows : n.type = "pre_posting" /\ n.post_id = p }

\* C32: a pre_posting notification is created by a firing alert only for a
\* post that, re-read at fire time, exists, is scheduled and is active.
C32_NotificationOnlyForScheduledPost ==
    [][\A p \in PostIds :
          PrePostingOf(notifications', p) # PrePostingOf(notifications, p) =>
              /\ RowExists(posts[p])
              /\ posts[p].status = "scheduled"
              /\ posts[p].is_active]_vars

\* an alert has fired for a post that was deleted or had failed and
\* created no notification; another fired for a scheduled post and
\* created one
C32_Witness ==
    /\ \E t \in DOMAIN alert_tasks :
          /\ alert_tasks[t].state = "done"
          /\ posts[alert_tasks[t].post].status \in {"deleted", "failed"}
          /\ PrePostingOf(notifications, alert_tasks[t].post) = {}
    /\ \E t \in DOMAIN alert_tasks :
          /\ alert_tasks[t].state = "done"
          /\ posts[alert_tasks[t].post].status = "scheduled"
          /\ PrePostingOf(notifications, alert_tasks[t].post) # {}

\* ------------------------------------------------------------------------
\* Properties of the notification preferences (SpecPrefs)
\* ------------------------------------------------------------------------
\* the failure rows of a user
FailureRowsOf(rows, u) == { n \in rows : n.type = "failure" /\ n.user_id = u }

\* C33: failure notifications cannot be disabled: after any sequence of
\* update_user_preferences calls failure_enabled is true, and every call of
\* send_failure_notification stores a failure row for the owner of the
\* post, whatever the preferences are.
C33_FailureNotificationsAlwaysOn ==
    /\ [](\A u \in Users : prefs[u].failure_enabled)
    /\ [][SendFailureNotification =>
             \E u \in Users :
                Cardinality(FailureRowsOf(notifications', u)) =
                   Cardinality(FailureRowsOf(notifications, u)) + 1]_vars

\* the user has switched off what the request can switch off, and a
\* failure row was stored after that
C33_Witness ==
    /\ \A u \in Users : ~prefs[u].pre_posting_enabled /\ ~prefs[u].success_enabled
    /\ now = 0
    /\ last_create.type = "failure"
    /\ last_create.result = "inserted"
    /\ Cardinality(notifications) = MaxNotifs

\* ------------------------------------------------------------------------
\* Properties of the connection registry (SpecNotif)
\* ------------------------------------------------------------------------
\* the connections whose handler ends in this step
HandlerEnds == { c \in DOMAIN conns : conns[c].handler /\ ~conns'[c].handler }

\* C34: after add_websocket_connection has replaced a connection of a user
\* by a later one, the teardown of the handler of the earlier one neither
\* removes the later one from the registry nor marks it inactive.
C34_TeardownKeepsLaterConnection ==
    [][\A c \in HandlerEnds : \A u \in Users :
          (websocket_connections[u] # NULL /\ websocket_connections[u] # c) =>
              /\ websocket_connections'[u] = websocket_connections[u]
              /\ conns'[websocket_connections[u]].is_active =
                    conns[websocket_connections[u]].is_active]_vars

\* ------------------------------------------------------------------------
\* Properties of the owner of a notification (SpecOwner)
\* ------------------------------------------------------------------------
\* C35: every success, failure or pre_posting notification created for a
\* post of either table is owned by the user who owns that post, also when
\* a bulk composer post and a scheduled post share an id.
C35_NotificationOwnedByPostOwner ==
    (notified # NotSent /\ notified.user # NULL) =>
        notified.user = lookup[lookup.table][lookup.id]

\* ------------------------------------------------------------------------
\* Properties of the bulk composer scheduler (SpecBulk)
\* ------------------------------------------------------------------------
\* C36: a bulk composer post the bulk scheduler published is stored with
\* status published, and no later pass of process_due_posts selects or
\* publishes it again.
C36_PublishedOnceAndStored ==
    \A p \in PostIds :
        /\ bulk_posted[p] <= 1
        /\ (bulk_posted[p] = 1 /\ bulk_pass.pc = "idle") => bulk_rows[p].status = "published"

\* ------------------------------------------------------------------------
\* Properties of the comments that arrive while the rule polls (SpecArrive)
\* ------------------------------------------------------------------------
\* C37: every comment of another user under a monitored post is eventually
\* evaluated by the eligibility filter in some poll cycle, also when it
\* arrives while a cycle is running or is left over when the cap of the
\* cycle is reached.
C37_EveryCommentEventuallyEvaluated ==
    \A c \in Arrivals : (ig_time[c] # NoTime) ~> (c \in ig_evaluated)

\* ------------------------------------------------------------------------
\* Properties of the polling passes that keep running (SpecSchedLive)
\* ------------------------------------------------------------------------
\* the account of post p exists and is connected (accounts do not change
\* while the scheduler runs)
StaysConnected(p) ==
    /\ accounts[posts[p].social_account_id].exists
    /\ accounts[posts[p].social_account_id].is_connected

\* C38: every due, active Scheduled Post whose account stays connected
\* reaches posted or failed after finitely many polling passes, and the
\* retry count of no post exceeds 5, whatever the media generator and the
\* publisher answer.
C38_DuePostReachesTerminalState ==
    /\ \A p \in PostIds : (p \in DuePosts /\ StaysConnected(p)) ~> Terminal(posts[p])
    /\ [](\A p \in PostIds : RetryCount(posts[p]) <= MaxAiRetries)

\* a pass is over in which a post of a connected account met a transient
\* error, and the post is failed
C38_Witness ==
    \E p \in PostIds :
        /\ StaysConnected(p)
        /\ exec_pc = "idle"
        /\ last_outcome[p] \in {"publish_transient", "ai_rate_limit"}
        /\ posts[p].status = "failed"

====
